---- MODULE Spec2Model ----
(***************************************************************************)
(* Search and filter engine of the transcript explorer: text normaliser,  *)
(* fuzzy term matcher, boolean query evaluator, identity resolver,        *)
(* session filter pipeline, sort, legal-reference filter, tag store,      *)
(* import and deletion of sessions.                                        *)
(*                                                                         *)
(* A JavaScript string is modelled as a sequence of characters, each      *)
(* character being named by a short token: "a" is the letter a, "a_acute" *)
(* is the precomposed U+00E1, "U0301" is the combining acute accent.      *)
(***************************************************************************)
EXTENDS Integers, Sequences, FiniteSets, TLC

VARIABLES
    nText, nOnce, nTwice, nPc,          \* normaliser: input, outputs, position
    query, content, result, evalStack, accepted, qPc, \* evaluator: inputs, outputs, position
    mContent, mTerm, mResult, mPc,      \* matcher: inputs, output, position
    aliasMap,                           \* App: the alias map
    showAliasModal,                     \* Explorer: "closed", or the identity manager shown
    selected, targetName,               \* IdentityManager (merge form): its state
    localMap,                           \* IdentityManager (edit form): its state
    resolved,                           \* Explorer: resolve(v) as last rendered, per value v
    merged,                             \* history: the display name last merged onto each identifier
    sessions,                           \* App: the session collection, in order
    savedTags,                          \* App: the tag store, a list of tags [id, name, sessionIds]
    activeTagIds,                       \* Explorer: ids of the active tags
    manualSelection, viewOnlySelected,  \* Explorer: the manual selection and its switch
    inputs,                             \* Explorer: the live filter inputs, not yet committed
    activeFilters,                      \* Explorer: the committed filter set
    tz,                                 \* environment: local time minus UTC, in hours
    baseSet, filteredSessions,          \* Explorer: candidate scope and result of the filter memo
    sortOption, sortedSessions,         \* Explorer: the selected sort key and the result of the sort memo
    legalReferences,                    \* App: the legal references, in order of creation
    legalReferenceIds,                  \* App: per session id, the field legalReferenceIds of the session
    legalFilters,                       \* Explorer: the committed legal-reference label lists
    legalFilteredIds,                   \* Explorer: ids of the sessions the legal-reference tests accept
    editingTagId,                       \* Explorer: id of the tag being renamed, or NoEditing
    now                                 \* environment: the reading of Date.now()

normVars == <<nText, nOnce, nTwice, nPc>>
queryVars == <<query, content, result, evalStack, accepted, qPc>>
matchVars == <<mContent, mTerm, mResult, mPc>>
aliasVars == <<aliasMap, showAliasModal, selected, targetName, localMap, resolved, merged>>
filterVars == <<sessions, savedTags, activeTagIds, manualSelection, viewOnlySelected,
                inputs, activeFilters, tz, baseSet, filteredSessions>>
sortVars == <<sortOption, sortedSessions>>
legalVars == <<legalReferences, legalReferenceIds, legalFilters, legalFilteredIds>>
tagVars == <<editingTagId, now>>
vars == <<normVars, queryVars, matchVars, aliasVars, filterVars, sortVars, legalVars, tagVars>>

(***************************************************************************)
(* Bounds                                                                  *)
(***************************************************************************)
MaxTextLen == 3
MaxQueryPieces == 3
MaxTermLen == 4
MaxMatchContentLen == 4
MaxSessions == 2
MaxReferences == 2
MaxBatch == 2
MaxTags == 2
MaxClock == 2

(***************************************************************************)
(* Generic sequence helpers                                                *)
(***************************************************************************)
SeqsUpTo(S, n) == UNION {[1..k -> S] : k \in 0..n}

RECURSIVE Concat(_)
Concat(ss) == IF ss = <<>> THEN <<>> ELSE Head(ss) \o Concat(Tail(ss))

Undefined == "undefined"

(***************************************************************************)
(* Characters                                                              *)
(***************************************************************************)
\* String.prototype.toLowerCase, one character at a time
toLowerCaseChar(c) ==
    CASE c = "A" -> "a"
      [] c = "B" -> "b"
      [] c = "D" -> "d"
      [] c = "J" -> "j"
      [] c = "M" -> "m"
      [] c = "N" -> "n"
      [] c = "O" -> "o"
      [] c = "R" -> "r"
      [] c = "T" -> "t"
      [] c = "L" -> "l"
      [] c = "S" -> "s"
      [] c = "A_acute" -> "a_acute"
      [] c = "A_tilde" -> "a_tilde"
      [] OTHER -> c

\* canonical decomposition (NFD) of one character
DecomposeChar(c) ==
    CASE c = "a_acute" -> <<"a", "U0301">>
      [] c = "A_acute" -> <<"A", "U0301">>
      [] c = "a_tilde" -> <<"a", "U0303">>
      [] c = "A_tilde" -> <<"A", "U0303">>
      [] OTHER -> <<c>>

\* the character class [U+0300-U+036F]; U20D7 is a combining mark outside it
IsCombiningDiacritic(c) == c \in {"U0301", "U0303"}

\* the character class \w (no unicode flag): [A-Za-z0-9_]
IsWordChar(c) ==
    c \in {"a", "b", "c", "d", "i", "j", "l", "m", "n", "o", "r", "s", "t", "u",
           "A", "B", "D", "J", "L", "M", "N", "O", "R", "S", "T",
           "0", "1", "2", "3", "4", "5", "6", "7", "8", "9", "_"}

\* String.prototype.toUpperCase, one character at a time
toUpperCaseChar(c) ==
    CASE c = "a" -> "A"
      [] c = "b" -> "B"
      [] c = "d" -> "D"
      [] c = "j" -> "J"
      [] c = "l" -> "L"
      [] c = "s" -> "S"
      [] c = "m" -> "M"
      [] c = "n" -> "N"
      [] c = "o" -> "O"
      [] c = "r" -> "R"
      [] c = "t" -> "T"
      [] c = "a_acute" -> "A_acute"
      [] c = "a_tilde" -> "A_tilde"
      [] OTHER -> c

\* the character class \s, also what String.prototype.trim removes
IsSpaceChar(c) == c \in {" ", "\t", "\n"}

(***************************************************************************)
(* Text normaliser                                                         *)
(***************************************************************************)
toLowerCase(s) == [i \in 1..Len(s) |-> toLowerCaseChar(s[i])]

RECURSIVE NFD(_)
NFD(s) == IF s = <<>> THEN <<>> ELSE DecomposeChar(Head(s)) \o NFD(Tail(s))

StripDiacritics(s) == SelectSeq(s, LAMBDA c : ~IsCombiningDiacritic(c))

\* the marks are stripped before the text is decomposed
normalizeTextStripFirst(text) == NFD(StripDiacritics(toLowerCase(text)))

normalizeText(text) == StripDiacritics(NFD(toLowerCase(text)))

(***************************************************************************)
(* Fuzzy term matcher                                                      *)
(***************************************************************************)
Min3(x, y, z) == IF x <= y THEN (IF x <= z THEN x ELSE z) ELSE (IF y <= z THEN y ELSE z)

Abs(x) == IF x < 0 THEN -x ELSE x

\* row j of the matrix, cells 0..i, filled left to right from the row above;
\* cell k of a row is element k + 1 of the sequence
RECURSIVE MatrixRowCells(_, _, _, _, _)
MatrixRowCells(a, bj, above, j, i) ==
    IF i = 0 THEN <<j>>
    ELSE LET left == MatrixRowCells(a, bj, above, j, i - 1)
             indicator == IF a[i] = bj THEN 0 ELSE 1
         IN  Append(left, Min3(left[i] + 1, above[i + 1] + 1, above[i] + indicator))

RECURSIVE MatrixRow(_, _, _)
MatrixRow(a, b, j) ==
    IF j = 0 THEN [k \in 1..(Len(a) + 1) |-> k - 1]
    ELSE MatrixRowCells(a, b[j], MatrixRow(a, b, j - 1), j, Len(a))

getLevenshteinDistance(a, b) ==
    IF Len(a) = 0 THEN Len(b)
    ELSE IF Len(b) = 0 THEN Len(a)
    ELSE MatrixRow(a, b, Len(b))[Len(a) + 1]

\* String.prototype.includes
Includes(s, sub) ==
    \E i \in 0..(Len(s) - Len(sub)) : SubSeq(s, i + 1, i + Len(sub)) = sub

\* String.prototype.split(/\W+/): the maximal runs of word characters, with an
\* empty string first (last) when the text starts (ends) with a separator
RECURSIVE SplitFrom(_, _, _)
SplitFrom(s, i, cur) ==
    IF i > Len(s) THEN <<cur>>
    ELSE IF IsWordChar(s[i]) THEN SplitFrom(s, i + 1, Append(cur, s[i]))
    ELSE IF i > 1 /\ ~IsWordChar(s[i - 1]) THEN SplitFrom(s, i + 1, cur)
    ELSE <<cur>> \o SplitFrom(s, i + 1, <<>>)

SplitNonWord(s) == SplitFrom(s, 1, <<>>)

threshold(termNorm) == IF Len(termNorm) <= 5 THEN 1 ELSE 2

FuzzyEligible(termNorm) == Len(termNorm) > 3 /\ ~Includes(termNorm, <<" ">>)

matchTerm(contentNormalized, term) ==
    LET termNorm == normalizeText(term)
        words == SplitNonWord(contentNormalized)
    IN  \/ Includes(contentNormalized, termNorm)
        \/ /\ FuzzyEligible(termNorm)
           /\ \E w \in 1..Len(words) :
                /\ ~(Abs(Len(words[w]) - Len(termNorm)) > threshold(termNorm))
                /\ getLevenshteinDistance(words[w], termNorm) <= threshold(termNorm)

(***************************************************************************)
(* Boolean query evaluator: tokenizer                                      *)
(***************************************************************************)
toUpperCase(s) == [i \in 1..Len(s) |-> toUpperCaseChar(s[i])]

\* the character class [^"]
IsNotQuote(c) == c # "\""

\* the character class [^\s\(\)"\+\-]
IsBareChar(c) == ~IsSpaceChar(c) /\ c \notin {"(", ")", "\"", "+", "-"}

\* [^"]+ from p on: the last index of the maximal run of such characters
\* (p - 1 when the run is empty)
NotQuoteRunEnd(q, p) ==
    CHOOSE e \in (p - 1)..Len(q) :
        /\ \A k \in p..e : IsNotQuote(q[k])
        /\ e = Len(q) \/ ~IsNotQuote(q[e + 1])

\* [^\s\(\)"\+\-]+ from p on, likewise
BareRunEnd(q, p) ==
    CHOOSE e \in (p - 1)..Len(q) :
        /\ \A k \in p..e : IsBareChar(q[k])
        /\ e = Len(q) \/ ~IsBareChar(q[e + 1])

\* the alternatives of group 2, in the order the regular expression lists them
OperatorLexemes ==
    << <<"(">>, <<")">>, <<"O", "R">>, <<"A", "N", "D">>, <<"N", "O", "T">>, <<"+">>, <<"-">> >>

\* the lexeme matches at p, letters compared without case (flag i)
LexemeAt(q, p, w) ==
    /\ p + Len(w) - 1 <= Len(q)
    /\ \A k \in 1..Len(w) : toUpperCaseChar(q[p + k - 1]) = w[k]

\* group 1: a quote, one or more non-quote characters, a quote; the index of
\* the closing quote, or 0 when the alternative does not match at p
PhraseEndAt(q, p) ==
    IF q[p] # "\"" THEN 0
    ELSE LET e == NotQuoteRunEnd(q, p + 1)
         IN  IF e >= p + 1 /\ e < Len(q) THEN e + 1 ELSE 0

\* group 2: the index of the first alternative that matches at p, or 0
OperatorAt(q, p) ==
    IF \E n \in 1..Len(OperatorLexemes) : LexemeAt(q, p, OperatorLexemes[n])
    THEN CHOOSE n \in 1..Len(OperatorLexemes) :
            /\ LexemeAt(q, p, OperatorLexemes[n])
            /\ \A m \in 1..(n - 1) : ~LexemeAt(q, p, OperatorLexemes[m])
    ELSE 0

\* the loop of regex.exec over the query, from position p on
RECURSIVE TokenizeFrom(_, _)
TokenizeFrom(q, p) ==
    IF p > Len(q) THEN <<>>
    ELSE LET phraseEnd == PhraseEndAt(q, p)
             op == OperatorAt(q, p)
             bareEnd == BareRunEnd(q, p)
         IN  IF phraseEnd # 0
             THEN <<[type |-> "TERM", value |-> SubSeq(q, p + 1, phraseEnd - 1)]>>
                     \o TokenizeFrom(q, phraseEnd + 1)
             ELSE IF op # 0
             THEN <<[type |-> "OP",
                     value |-> toUpperCase(SubSeq(q, p, p + Len(OperatorLexemes[op]) - 1))]>>
                     \o TokenizeFrom(q, p + Len(OperatorLexemes[op]))
             ELSE IF bareEnd >= p
             THEN <<[type |-> "TERM", value |-> SubSeq(q, p, bareEnd)]>>
                     \o TokenizeFrom(q, bareEnd + 1)
             ELSE TokenizeFrom(q, p + 1)

Tokenize(q) == TokenizeFrom(q, 1)

(***************************************************************************)
(* Boolean query evaluator: shunting-yard                                  *)
(***************************************************************************)
opLPAREN == <<"(">>
opRPAREN == <<")">>
opOR == <<"O", "R">>
opAND == <<"A", "N", "D">>
opNOT == <<"N", "O", "T">>
opPLUS == <<"+">>
opMINUS == <<"-">>

\* AND and OR with their levels exchanged
precedenceOrAboveAnd(op) ==
    CASE op = opNOT -> 3
      [] op = opMINUS -> 3
      [] op = opAND -> 1
      [] op = opPLUS -> 1
      [] op = opOR -> 2
      [] op = opLPAREN -> 0

precedence(op) ==
    CASE op = opNOT -> 3
      [] op = opMINUS -> 3
      [] op = opAND -> 2
      [] op = opPLUS -> 2
      [] op = opOR -> 1
      [] op = opLPAREN -> 0

Last(s) == s[Len(s)]
Front(s) == SubSeq(s, 1, Len(s) - 1)
OpToken(v) == [type |-> "OP", value |-> v]

\* while (stack not empty and top is not "(") output.push(stack.pop())
RECURSIVE PopToParen(_)
PopToParen(st) ==
    IF Len(st.operatorStack) > 0 /\ Last(st.operatorStack) # opLPAREN
    THEN PopToParen([outputQueue |-> Append(st.outputQueue, OpToken(Last(st.operatorStack))),
                     operatorStack |-> Front(st.operatorStack)])
    ELSE st

\* while (stack not empty and precedence[top] >= precedence[op]) output.push(stack.pop())
RECURSIVE PopHigher(_, _)
PopHigher(st, op) ==
    IF Len(st.operatorStack) > 0 /\ precedence(Last(st.operatorStack)) >= precedence(op)
    THEN PopHigher([outputQueue |-> Append(st.outputQueue, OpToken(Last(st.operatorStack))),
                    operatorStack |-> Front(st.operatorStack)], op)
    ELSE st

\* while (stack not empty) output.push(stack.pop())
RECURSIVE PopAll(_)
PopAll(st) ==
    IF Len(st.operatorStack) > 0
    THEN PopAll([outputQueue |-> Append(st.outputQueue, OpToken(Last(st.operatorStack))),
                 operatorStack |-> Front(st.operatorStack)])
    ELSE st

\* one iteration of the loop over the tokens
ShuntToken(st, token) ==
    IF token.type = "TERM"
    THEN [st EXCEPT !.outputQueue = Append(@, token)]
    ELSE IF token.value = opLPAREN
    THEN [st EXCEPT !.operatorStack = Append(@, token.value)]
    ELSE IF token.value = opRPAREN
    THEN LET popped == PopToParen(st)
         IN  [popped EXCEPT !.operatorStack = IF Len(@) > 0 THEN Front(@) ELSE @]
    ELSE LET popped == PopHigher(st, token.value)
         IN  [popped EXCEPT !.operatorStack = Append(@, token.value)]

RECURSIVE ShuntFrom(_, _, _)
ShuntFrom(tokens, k, st) ==
    IF k > Len(tokens) THEN st
    ELSE ShuntFrom(tokens, k + 1, ShuntToken(st, tokens[k]))

ToPostfix(tokens) ==
    PopAll(ShuntFrom(tokens, 1, [outputQueue |-> <<>>, operatorStack |-> <<>>])).outputQueue

(***************************************************************************)
(* Boolean query evaluator: postfix evaluation                             *)
(***************************************************************************)
\* evalStack.pop() || false: the popped value (false when the stack is
\* empty) and the stack that is left
PopOrFalse(stack) ==
    IF Len(stack) = 0 THEN [value |-> FALSE, rest |-> stack]
    ELSE [value |-> Last(stack), rest |-> Front(stack)]

\* a NOT without operand pushes nothing
NegateTopSkipsEmpty(stack) ==
    IF Len(stack) = 0 THEN stack
    ELSE Append(Front(stack), ~Last(stack))

\* const a = evalStack.pop(); evalStack.push(!a): !undefined is true
NegateTop(stack) ==
    IF Len(stack) = 0 THEN <<TRUE>>
    ELSE Append(Front(stack), ~Last(stack))

\* one iteration of the loop over the output queue
EvalToken(stack, token, normalizedContent) ==
    IF token.type = "TERM"
    THEN Append(stack, matchTerm(normalizedContent, token.value))
    ELSE IF token.value = opNOT \/ token.value = opMINUS
    THEN NegateTop(stack)
    ELSE LET b == PopOrFalse(stack)
             a == PopOrFalse(b.rest)
         IN  IF token.value = opAND \/ token.value = opPLUS
             THEN Append(a.rest, a.value /\ b.value)
             ELSE IF token.value = opOR
             THEN Append(a.rest, a.value \/ b.value)
             ELSE a.rest

RECURSIVE EvalFrom(_, _, _, _)
EvalFrom(outputQueue, k, stack, normalizedContent) ==
    IF k > Len(outputQueue) THEN stack
    ELSE EvalFrom(outputQueue, k + 1,
                  EvalToken(stack, outputQueue[k], normalizedContent), normalizedContent)

\* the evaluation stack after the last postfix token
FinalEvalStack(c, q) == EvalFrom(ToPostfix(Tokenize(q)), 1, <<>>, normalizeText(c))

\* the query is tested without being trimmed
trimNothing(s) == s

\* String.prototype.trim
trim(s) ==
    IF \A i \in 1..Len(s) : IsSpaceChar(s[i]) THEN <<>>
    ELSE LET first == CHOOSE i \in 1..Len(s) :
                        ~IsSpaceChar(s[i]) /\ \A k \in 1..(i - 1) : IsSpaceChar(s[k])
             last == CHOOSE i \in 1..Len(s) :
                        ~IsSpaceChar(s[i]) /\ \A k \in (i + 1)..Len(s) : IsSpaceChar(s[k])
         IN  SubSeq(s, first, last)

\* return evalStack.length > 0 ? evalStack[0] : false
StackResult(stack) == IF Len(stack) > 0 THEN stack[1] ELSE FALSE

evaluateBooleanQuery(c, q) ==
    IF trim(q) = <<>> THEN TRUE
    ELSE StackResult(FinalEvalStack(c, q))

\* if (content && !evaluateBooleanQuery(s.content, content)) return false
contentPredicate(sessionContent, contentFilter, verdict) ==
    ~(contentFilter # <<>> /\ ~verdict)

(***************************************************************************)
(* Identity resolver                                                       *)
(***************************************************************************)
\* an alias map is a plain object: a function from its own keys to strings
EmptyMap == [k \in {} |-> ""]

\* names every plain object inherits from Object.prototype
InheritedKeys == {"constructor"}
InheritedValue == "[Function: Object]"

\* aliasMap[key]
Lookup(map, key) ==
    IF key \in DOMAIN map THEN map[key]
    ELSE IF key \in InheritedKeys THEN InheritedValue
    ELSE Undefined

\* newMap[key] = value, and { ...prev, [key]: value }
Assign(map, key, value) ==
    [k \in DOMAIN map \cup {key} |-> IF k = key THEN value ELSE map[k]]

\* { ...prev, ...more }
Overlay(prev, more) ==
    [k \in DOMAIN prev \cup DOMAIN more |-> IF k \in DOMAIN more THEN more[k] ELSE prev[k]]

\* what !v tests: undefined and the empty string are falsy
Falsy(v) == v = Undefined \/ v = ""

resolve(map, val) ==
    IF Falsy(val) THEN Undefined
    ELSE IF Falsy(Lookup(map, val)) THEN val
    ELSE Lookup(map, val)

\* targetName.trim() is empty
IsBlankName(name) == name \in {"", " "}

(***************************************************************************)
(* Numbers, dates and times of the filter pipeline                        *)
(***************************************************************************)
\* a JavaScript number: an integer, or NaN
Num(v) == [isNaN |-> FALSE, value |-> v]
NaN == [isNaN |-> TRUE, value |-> 0]

\* x + y and x * y: NaN is contagious
NumAdd(x, y) == IF x.isNaN \/ y.isNaN THEN NaN ELSE Num(x.value + y.value)
NumMul(x, y) == IF x.isNaN \/ y.isNaN THEN NaN ELSE Num(x.value * y.value)

\* x < y and x > y: every comparison with NaN is false
NumLT(x, y) == ~x.isNaN /\ ~y.isNaN /\ x.value < y.value
NumGT(x, y) == NumLT(y, x)

Digits == {"0", "1", "2", "3", "4", "5", "6", "7", "8", "9"}

DigitValue(c) ==
    CASE c = "0" -> 0 [] c = "1" -> 1 [] c = "2" -> 2 [] c = "3" -> 3 [] c = "4" -> 4
      [] c = "5" -> 5 [] c = "6" -> 6 [] c = "7" -> 7 [] c = "8" -> 8 [] c = "9" -> 9

\* the value of a string of decimal digits
RECURSIVE DecimalValue(_)
DecimalValue(s) ==
    IF s = <<>> THEN 0 ELSE 10 * DecimalValue(Front(s)) + DigitValue(Last(s))

\* Number(s): white space around is ignored, the empty string is 0, anything
\* that is not a decimal literal is NaN
Number(s) ==
    LET t == trim(s)
    IN  IF t = <<>> THEN Num(0)
        ELSE IF \A i \in 1..Len(t) : t[i] \in Digits THEN Num(DecimalValue(t))
        ELSE NaN

\* the longest prefix of s made of digits
RECURSIVE DigitPrefix(_)
DigitPrefix(s) ==
    IF s = <<>> \/ Head(s) \notin Digits THEN <<>> ELSE <<Head(s)>> \o DigitPrefix(Tail(s))

\* parseInt(s, 10): leading white space and a sign are accepted, then the
\* digits up to the first other character; no digit gives NaN
parseInt(s) ==
    LET t == trim(s)
        negative == t # <<>> /\ Head(t) = "-"
        body == IF t # <<>> /\ Head(t) \in {"-", "+"} THEN Tail(t) ELSE t
        digits == DigitPrefix(body)
    IN  IF digits = <<>> THEN NaN
        ELSE Num(IF negative THEN -DecimalValue(digits) ELSE DecimalValue(digits))

\* s.split(sep) for a separator of one character
RECURSIVE SplitOnFrom(_, _, _, _)
SplitOnFrom(s, sep, i, cur) ==
    IF i > Len(s) THEN <<cur>>
    ELSE IF s[i] = sep THEN <<cur>> \o SplitOnFrom(s, sep, i + 1, <<>>)
    ELSE SplitOnFrom(s, sep, i + 1, Append(cur, s[i]))

SplitOn(s, sep) == SplitOnFrom(s, sep, 1, <<>>)

\* the conversion that leaves the hours out
parseDurationWithoutHours(dur) ==
    IF dur = <<>> THEN Num(0)
    ELSE LET parts == [i \in 1..Len(SplitOn(dur, ":")) |-> Number(SplitOn(dur, ":")[i])]
         IN  IF Len(parts) = 3
                 THEN NumAdd(NumMul(parts[2], Num(60)), parts[3])
             ELSE IF Len(parts) = 2
                 THEN NumAdd(NumMul(parts[1], Num(60)), parts[2])
             ELSE Num(0)

\* a missing duration and an empty one are both falsy: both are <<>> here
parseDurationToSeconds(dur) ==
    IF dur = <<>> THEN Num(0)
    ELSE LET parts == [i \in 1..Len(SplitOn(dur, ":")) |-> Number(SplitOn(dur, ":")[i])]
         IN  IF Len(parts) = 3
                 THEN NumAdd(NumAdd(NumMul(parts[1], Num(3600)), NumMul(parts[2], Num(60))), parts[3])
             ELSE IF Len(parts) = 2
                 THEN NumAdd(NumMul(parts[1], Num(60)), parts[2])
             ELSE Num(0)

\* year is a leap year of the Gregorian calendar
IsLeapYear(year) == (year % 4 = 0 /\ year % 100 # 0) \/ year % 400 = 0

\* days of the year before the first day of the month with index 0..11
DaysBeforeMonth(year, monthIndex) ==
    LET common == <<0, 31, 59, 90, 120, 151, 181, 212, 243, 273, 304, 334>>
    IN  common[monthIndex + 1] + (IF monthIndex >= 2 /\ IsLeapYear(year) THEN 1 ELSE 0)

\* days from 1 January of year 1 to the given day
DayNumber(year, monthIndex, day) ==
    365 * (year - 1) + ((year - 1) \div 4) - ((year - 1) \div 100) + ((year - 1) \div 400)
        + DaysBeforeMonth(year, monthIndex) + (day - 1)

\* the time value of a Date, in hours of universal time; NaN is an invalid date
\* new Date(year, monthIndex, day): midnight of that day in local time
LocalMidnight(year, monthIndex, day, offset) ==
    IF year.isNaN \/ monthIndex.isNaN \/ day.isNaN THEN NaN
    ELSE Num(24 * DayNumber(year.value, monthIndex.value, day.value) - offset)

Null == [isNull |-> TRUE, time |-> NaN]

\* parseDate of a day.month.year string: a Date in local time, or null
parseDate(dateStr, offset) ==
    LET parts == SplitOn(dateStr, ".")
    IN  IF Len(parts) = 3
            THEN [isNull |-> FALSE,
                  time |-> LocalMidnight(parseInt(parts[3]),
                                         NumAdd(parseInt(parts[2]), Num(-1)),
                                         parseInt(parts[1]), offset)]
        ELSE Null

\* new Date(s) of the value of a date input, year-month-day: the date-only
\* form is read as midnight of universal time; anything else is an invalid date
NewDate(s) ==
    LET parts == SplitOn(s, "-")
        wellFormed == /\ Len(parts) = 3
                      /\ Len(parts[1]) = 4 /\ Len(parts[2]) = 2 /\ Len(parts[3]) = 2
                      /\ \A i \in 1..3 : \A j \in 1..Len(parts[i]) : parts[i][j] \in Digits
    IN  IF wellFormed /\ DecimalValue(parts[2]) \in 1..12 /\ DecimalValue(parts[3]) \in 1..31
            THEN Num(24 * DayNumber(DecimalValue(parts[1]), DecimalValue(parts[2]) - 1,
                                    DecimalValue(parts[3])))
        ELSE NaN

\* UTF-16 code unit of the characters of a time of day
CharCode(c) == IF c \in Digits THEN 48 + DigitValue(c) ELSE IF c = ":" THEN 58 ELSE 32

\* a <= b on strings: code unit by code unit, a prefix coming first
RECURSIVE StringLE(_, _)
StringLE(a, b) ==
    IF a = <<>> THEN TRUE
    ELSE IF b = <<>> THEN FALSE
    ELSE IF CharCode(Head(a)) # CharCode(Head(b)) THEN CharCode(Head(a)) < CharCode(Head(b))
    ELSE StringLE(Tail(a), Tail(b))

StringGE(a, b) == StringLE(b, a)

\* time.substring(0, n)
Substring0(s, n) == SubSeq(s, 1, IF Len(s) < n THEN Len(s) ELSE n)

\* the range test without the wrap across midnight
isTimeInRangeNoWrap(time, start, end) ==
    IF time = <<>> THEN FALSE
    ELSE LET t == Substring0(time, 5)
         IN  IF start # <<>> /\ end # <<>> THEN StringGE(t, start) /\ StringLE(t, end)
             ELSE IF start # <<>> THEN StringGE(t, start)
             ELSE IF end # <<>> THEN StringLE(t, end)
             ELSE TRUE

isTimeInRange(time, start, end) ==
    IF time = <<>> THEN FALSE
    ELSE LET t == Substring0(time, 5)
         IN  IF start # <<>> /\ end # <<>>
                 THEN IF StringLE(start, end)
                          THEN StringGE(t, start) /\ StringLE(t, end)
                          ELSE StringGE(t, start) \/ StringLE(t, end)
             ELSE IF start # <<>> THEN StringGE(t, start)
             ELSE IF end # <<>> THEN StringLE(t, end)
             ELSE TRUE

(***************************************************************************)
(* Session filter pipeline                                                 *)
(*                                                                         *)
(* A session is a record. Its numbers and names are identities, written   *)
(* as TLA+ strings like the keys of the alias map; its id, date, times,    *)
(* duration and content are strings of characters. An optional field that *)
(* the code only tests for truthiness is the empty string when missing.    *)
(***************************************************************************)
\* the committed filter set before any search, and after handleClearFilters
EmptyFilters ==
    [session |-> <<>>, content |-> <<>>, dateStart |-> <<>>, dateEnd |-> <<>>,
     timeStart |-> <<>>, timeEnd |-> <<>>,
     sourceNumbers |-> {}, destNumbers |-> {}, sourceSpeakers |-> {}, destSpeakers |-> {},
     minDuration |-> <<>>, maxDuration |-> <<>>]

\* useState<string | null>(null) of editingTagId
NoEditing == "null"

\* ids of the sessions of the active tags; an active id without a tag adds nothing
AllowedIdsOfEveryTag(tags, activeIds) == UNION {tags[i].sessionIds : i \in 1..Len(tags)}

AllowedIds(tags, activeIds) ==
    UNION {tags[i].sessionIds : i \in {j \in 1..Len(tags) : tags[j].id \in activeIds}}

\* steps 1 and 2 of the memo: the tag scope, then the manual selection
CandidateScope(all, tags, activeIds, selection, onlySelected) ==
    LET tagged == IF activeIds # {}
                      THEN SelectSeq(all, LAMBDA s : s.sessionId \in AllowedIds(tags, activeIds))
                      ELSE all
    IN  IF onlySelected
            THEN SelectSeq(tagged, LAMBDA s : s.sessionId \in selection)
            ELSE tagged

\* the duration test that looks at the type only when a bound is a number
DurationAcceptedNumericOnly(s, f) ==
    /\ (f.minDuration # <<>> /\ ~parseInt(f.minDuration).isNaN) =>
           s.type = "AUDIO" /\ ~NumLT(parseDurationToSeconds(s.duration), parseInt(f.minDuration))
    /\ (f.maxDuration # <<>> /\ ~parseInt(f.maxDuration).isNaN) =>
           s.type = "AUDIO" /\ ~NumGT(parseDurationToSeconds(s.duration), parseInt(f.maxDuration))

\* the duration test that looks at the type only when both bounds are set
DurationAcceptedTypeOnInterval(s, f) ==
    /\ (f.minDuration # <<>> /\ f.maxDuration # <<>>) => s.type = "AUDIO"
    /\ f.minDuration # <<>> =>
           ~(~parseInt(f.minDuration).isNaN
                /\ NumLT(parseDurationToSeconds(s.duration), parseInt(f.minDuration)))
    /\ f.maxDuration # <<>> =>
           ~(~parseInt(f.maxDuration).isNaN
                /\ NumGT(parseDurationToSeconds(s.duration), parseInt(f.maxDuration)))

DurationAccepted(s, f) ==
    (f.minDuration # <<>> \/ f.maxDuration # <<>>) =>
        /\ s.type = "AUDIO"
        /\ f.minDuration # <<>> =>
               ~(~parseInt(f.minDuration).isNaN
                    /\ NumLT(parseDurationToSeconds(s.duration), parseInt(f.minDuration)))
        /\ f.maxDuration # <<>> =>
               ~(~parseInt(f.maxDuration).isNaN
                    /\ NumGT(parseDurationToSeconds(s.duration), parseInt(f.maxDuration)))

\* list.includes(resolve(raw)) for a resolved value that is not falsy
ResolvedIn(list, raw, map) == ~Falsy(resolve(map, raw)) /\ resolve(map, raw) \in list

SourceNumberAccepted(s, f, map) ==
    f.sourceNumbers # {} => ResolvedIn(f.sourceNumbers, s.sourceNumber, map)

DestNumberAccepted(s, f, map) ==
    f.destNumbers # {} => ResolvedIn(f.destNumbers, s.destinationNumber, map)

\* the classes [A-Z U+00C0-U+00DA] and [a-z U+00E0-U+00FA 0-9 _ - \s] of the speaker pattern
IsSpeakerInitial(c) ==
    c \in {"A", "B", "D", "J", "L", "M", "N", "O", "R", "T", "A_acute", "A_tilde"}

IsSpeakerChar(c) ==
    \/ c \in {"a", "b", "c", "d", "i", "j", "l", "m", "n", "o", "r", "s", "t", "u",
              "a_acute", "a_tilde", "o_slash", "_", "-"}
    \/ c \in Digits
    \/ IsSpaceChar(c)

\* s.content.split('\n')[0]
FirstLine(text) == SplitOn(text, "\n")[1]

\* match[1] of the speaker pattern on a line: an initial, one to thirty
\* further characters of the name class, then a colon; <<>> when no match
SpeakerPrefix(line) ==
    IF \E n \in 2..31 :
           /\ n < Len(line)
           /\ IsSpeakerInitial(line[1])
           /\ \A i \in 2..n : IsSpeakerChar(line[i])
           /\ line[n + 1] = ":"
        THEN LET n == CHOOSE n \in 2..31 :
                          /\ n < Len(line)
                          /\ IsSpeakerInitial(line[1])
                          /\ \A i \in 2..n : IsSpeakerChar(line[i])
                          /\ line[n + 1] = ":"
             IN  SubSeq(line, 1, n)
        ELSE <<>>

\* the identity that a string of characters spells
IdentityOf(chars) ==
    CASE chars = <<"A", "n", "a">> -> "Ana"
      [] chars = <<"R", "u", "i">> -> "Rui"
      [] OTHER -> "other"

\* the speaker read from the first line of the content is in the list
ContentSpeakerIn(list, text, map) ==
    /\ SpeakerPrefix(FirstLine(text)) # <<>>
    /\ resolve(map, IdentityOf(trim(SpeakerPrefix(FirstLine(text))))) \in list

SourceSpeakerAccepted(s, f, map) ==
    f.sourceSpeakers # {} =>
        \/ ResolvedIn(f.sourceSpeakers, s.sourceName, map)
        \/ ResolvedIn(f.sourceSpeakers, s.sourceNumber, map)
        \/ ContentSpeakerIn(f.sourceSpeakers, s.content, map)

DestSpeakerAccepted(s, f, map) ==
    f.destSpeakers # {} =>
        \/ ResolvedIn(f.destSpeakers, s.destinationName, map)
        \/ ResolvedIn(f.destSpeakers, s.destinationNumber, map)

\* the session id test that compares the entries as typed
SessionIdAcceptedAsTyped(s, f) ==
    f.session # <<>> =>
        \E i \in 1..Len(SplitOn(f.session, ",")) :
            Includes(s.sessionId, SplitOn(f.session, ",")[i])

SessionIdAccepted(s, f) ==
    f.session # <<>> =>
        \E i \in 1..Len(SplitOn(f.session, ",")) :
            Includes(toLowerCase(s.sessionId), toLowerCase(trim(SplitOn(f.session, ",")[i])))

ContentAccepted(s, f) ==
    contentPredicate(s.content, f.content, evaluateBooleanQuery(s.content, f.content))

DateAccepted(s, f, offset) ==
    (f.dateStart # <<>> \/ f.dateEnd # <<>>) =>
        LET d == parseDate(s.date, offset)
        IN  ~(/\ ~d.isNull
              /\ \/ f.dateStart # <<>> /\ NumLT(d.time, NewDate(f.dateStart))
                 \/ f.dateEnd # <<>> /\ NumGT(d.time, NewDate(f.dateEnd)))

TimeAccepted(s, f) ==
    ~(/\ f.timeStart # <<>> \/ f.timeEnd # <<>>
      /\ s.startTime # <<>>
      /\ ~isTimeInRange(s.startTime, f.timeStart, f.timeEnd))

\* the callback of baseSet.filter: the first failing test rejects the session
SessionAccepted(s, f, map, offset) ==
    /\ DurationAccepted(s, f)
    /\ SourceNumberAccepted(s, f, map)
    /\ DestNumberAccepted(s, f, map)
    /\ SourceSpeakerAccepted(s, f, map)
    /\ DestSpeakerAccepted(s, f, map)
    /\ SessionIdAccepted(s, f)
    /\ ContentAccepted(s, f)
    /\ DateAccepted(s, f, offset)
    /\ TimeAccepted(s, f)

\* a filter that loses the first session of the scope
FilterSessionsAfterFirst(scope, f, map, offset) ==
    SelectSeq(IF scope = <<>> THEN <<>> ELSE Tail(scope),
              LAMBDA s : SessionAccepted(s, f, map, offset))

FilterSessions(scope, f, map, offset) ==
    SelectSeq(scope, LAMBDA s : SessionAccepted(s, f, map, offset))

(***************************************************************************)
(* Legal references                                                        *)
(*                                                                         *)
(* A legal reference is a record with an id, a type (ARTICLE, FACT or TAG)  *)
(* and a label. The field legalReferenceIds of a session is undefined or   *)
(* an array of reference ids; only membership in the array is ever read,   *)
(* so the array is a set here.                                             *)
(***************************************************************************)
\* session.legalReferenceIds: missing, or an array of ids
NoReferenceIds == [isUndefined |-> TRUE, ids |-> {}]
ReferenceIds(ids) == [isUndefined |-> FALSE, ids |-> ids]

LegalReferenceTypes == {"ARTICLE", "FACT", "TAG"}

EmptyLegalFilters == [legalArticle |-> {}, legalFact |-> {}, legalTag |-> {}]

\* legalReferences.find(r => r.id === id)?.label
LabelOfReference(references, id) ==
    IF \E i \in 1..Len(references) : references[i].id = id
        THEN references[CHOOSE i \in 1..Len(references) :
                            /\ references[i].id = id
                            /\ \A j \in 1..(i - 1) : references[j].id # id].label
    ELSE Undefined

\* session.legalReferenceIds.map(id => legalReferences.find(r => r.id === id)?.label)
SessionLabels(linked, references) == {LabelOfReference(references, id) : id \in linked.ids}

\* the test of one label list: the same three lines for each category
LegalListAccepted(list, linked, references) ==
    \/ list = {}
    \/ /\ ~linked.isUndefined
       /\ \E label \in list : label \in SessionLabels(linked, references)

\* the three tests, one return false each
LegalAccepted(linked, f, references) ==
    /\ LegalListAccepted(f.legalArticle, linked, references)
    /\ LegalListAccepted(f.legalFact, linked, references)
    /\ LegalListAccepted(f.legalTag, linked, references)

\* labels the filter panel offers for one category
AvailableLabels(references, type) ==
    {references[i].label : i \in {j \in 1..Len(references) : references[j].type = type}}

\* ids of the references of one category whose label is ticked in the link panel
IdsToLinkOf(references, type, labels) ==
    {references[i].id : i \in {j \in 1..Len(references) :
                                   references[j].type = type /\ references[j].label \in labels}}

(***************************************************************************)
(* Sort stage                                                              *)
(***************************************************************************)
SortOptions ==
    {"date_desc", "date_asc", "source_num", "dest_num", "source_name", "dest_name", "duration_desc"}

\* x - y on numbers
NumSub(x, y) == IF x.isNaN \/ y.isNaN THEN NaN ELSE Num(x.value - y.value)

\* parseDate(date)?.getTime() || 0: null, an invalid date and time 0 all give 0
TimeOrZero(date) == IF date.isNull \/ date.time.isNaN THEN Num(0) ELSE date.time

\* v || '' of an identity
OrEmpty(v) == IF Falsy(v) THEN "" ELSE v

\* v || w of two identities
OrElse(v, w) == IF Falsy(v) THEN w ELSE v

\* the identities of the sessions in the order of the collation: the empty
\* string, then digits, then letters
CollationOrder == <<"", "9100", "9101", "9200", "9300", "9301", "Ana", "Rui">>

CollationRank(v) == CHOOSE i \in 1..Len(CollationOrder) : CollationOrder[i] = v

\* x.localeCompare(y): negative, zero or positive
localeCompare(x, y) ==
    Num(IF CollationRank(x) < CollationRank(y) THEN -1
        ELSE IF CollationRank(x) > CollationRank(y) THEN 1 ELSE 0)

\* the comparison function handed to Array.prototype.sort
compareSessions(a, b, option, map, offset) ==
    CASE option = "date_desc" ->
             NumSub(TimeOrZero(parseDate(b.date, offset)), TimeOrZero(parseDate(a.date, offset)))
      [] option = "date_asc" ->
             NumSub(TimeOrZero(parseDate(a.date, offset)), TimeOrZero(parseDate(b.date, offset)))
      [] option = "duration_desc" ->
             NumSub(parseDurationToSeconds(b.duration), parseDurationToSeconds(a.duration))
      [] option = "source_num" ->
             localeCompare(OrEmpty(resolve(map, a.sourceNumber)), OrEmpty(resolve(map, b.sourceNumber)))
      [] option = "dest_num" ->
             localeCompare(OrEmpty(resolve(map, a.destinationNumber)),
                           OrEmpty(resolve(map, b.destinationNumber)))
      [] option = "source_name" ->
             localeCompare(OrEmpty(OrElse(resolve(map, a.sourceName), resolve(map, a.sourceNumber))),
                           OrEmpty(OrElse(resolve(map, b.sourceName), resolve(map, b.sourceNumber))))
      [] option = "dest_name" ->
             localeCompare(OrEmpty(OrElse(resolve(map, a.destinationName),
                                          resolve(map, a.destinationNumber))),
                           OrEmpty(OrElse(resolve(map, b.destinationName),
                                          resolve(map, b.destinationNumber))))
      [] OTHER -> Num(0)

\* SortCompare of Array.prototype.sort: the sign of the comparison, NaN counting as 0
SortCompare(v) == IF v.isNaN \/ v.value = 0 THEN 0 ELSE IF v.value < 0 THEN -1 ELSE 1

\* the signs of the comparison of every two elements of a list
ComparisonSigns(list, option, map, offset) ==
    [i \in 1..Len(list) |->
        [j \in 1..Len(list) |-> SortCompare(compareSessions(list[i], list[j], option, map, offset))]]

\* a consistent comparison function orders the elements in classes: equal is
\* reflexive, symmetric and transitive, and less is transitive and respects equal
IsConsistentComparison(sign) ==
    /\ \A i \in DOMAIN sign : sign[i][i] = 0
    /\ \A i, j \in DOMAIN sign : sign[i][j] = -sign[j][i]
    /\ \A i, j, k \in DOMAIN sign :
           /\ (sign[i][j] = 0 /\ sign[j][k] = 0) => sign[i][k] = 0
           /\ (sign[i][j] < 0 /\ sign[j][k] <= 0) => sign[i][k] < 0
           /\ (sign[i][j] <= 0 /\ sign[j][k] < 0) => sign[i][k] < 0

\* one element is put in its place among the elements already sorted: behind
\* every element that is not greater
RECURSIVE InsertInOrder(_, _, _)
InsertInOrder(sorted, i, sign) ==
    IF sorted = <<>> \/ sign[Last(sorted)][i] <= 0 THEN Append(sorted, i)
    ELSE Append(InsertInOrder(Front(sorted), i, sign), Last(sorted))

\* the stable order of the indices 1..n under the signs
RECURSIVE StableOrder(_, _)
StableOrder(n, sign) ==
    IF n = 0 THEN <<>> ELSE InsertInOrder(StableOrder(n - 1, sign), n, sign)

\* the orders of the indices 1..n
Orders(n) == {p \in [1..n -> 1..n] : \A i, j \in 1..n : i # j => p[i] # p[j]}

\* [...list].sort(compare): the sort is stable; when the comparison function
\* is not consistent the order of the result is left to the engine. Of the
\* comparisons above only the difference of two durations can be NaN;
\* differences of numbers and comparisons of strings are always consistent
SortOutcomes(list, option, map, offset) ==
    LET sign == ComparisonSigns(list, option, map, offset)
        mayBeNaN == /\ option = "duration_desc"
                    /\ \E i \in 1..Len(list) : parseDurationToSeconds(list[i].duration).isNaN
        orders == IF ~mayBeNaN \/ IsConsistentComparison(sign)
                      THEN {StableOrder(Len(list), sign)}
                  ELSE Orders(Len(list))
    IN  {[i \in 1..Len(list) |-> list[p[i]]] : p \in orders}

(***************************************************************************)
(* The session collection of the App: imports and deletions                *)
(***************************************************************************)
\* `${s.target}-${s.sessionId}-${s.date}`
SessionKey(s) == s.target \o <<"-">> \o s.sessionId \o <<"-">> \o s.date

\* prev.map(key) as a set
ExistingKeys(prev) == {SessionKey(prev[i]) : i \in 1..Len(prev)}

\* setSessions(prev => [...prev, ...uniqueNew]): the new sessions are
\* compared with the keys of prev only
AppendUnique(prev, newSessions) ==
    prev \o SelectSeq(newSessions, LAMBDA s : SessionKey(s) \notin ExistingKeys(prev))

(***************************************************************************)
(* The tag store: tags are created, renamed, deleted and restored          *)
(***************************************************************************)
TagIds(tags) == {tags[i].id : i \in 1..Len(tags)}

\* saveTag: the tag holds the manual selection, or else every listed session
IdsToSave(selection, listed) ==
    IF selection # {} THEN selection ELSE {listed[i].sessionId : i \in 1..Len(listed)}

\* prev.map(t => t.id === editingTagId ? { ...t, name: editTagName } : t)
RenameTag(tags, id, name) ==
    [i \in 1..Len(tags) |-> IF tags[i].id = id THEN [tags[i] EXCEPT !.name = name] ELSE tags[i]]

\* prev.filter(t => t.id !== id)
RemoveTag(tags, id) == SelectSeq(tags, LAMBDA t : t.id # id)

\* handleDeleteSessions: prev.filter(s => !idsToRemove.includes(s.sessionId))
DeleteSessions(prev, idsToRemove) == SelectSeq(prev, LAMBDA s : s.sessionId \notin idsToRemove)

\* handleDeleteFiles: prev.filter(s => !fileNames.includes(s.sourceFileName))
DeleteFiles(prev, fileNames) == SelectSeq(prev, LAMBDA s : s.sourceFileName \notin fileNames)

(***************************************************************************)
(* Inputs                                                                  *)
(***************************************************************************)
wJoao == <<"J", "o", "a_tilde", "o">>
wMaria == <<"M", "a", "r", "i", "a">>
wMario == <<"M", "a", "r", "i", "o">>
wAb == <<"a", "b">>
sp == <<" ">>
quote == <<"\"">>

\* the transcript of a session: any selection of these words, one per line
ContentWords == <<wJoao, wMaria, wMario, wAb>>

RECURSIVE JoinWords(_, _)
JoinWords(words, picked) ==
    IF words = <<>> THEN <<>>
    ELSE (IF 1 \in picked THEN Head(words) \o <<"\n">> ELSE <<>>)
            \o JoinWords(Tail(words), {k - 1 : k \in picked \ {1}})

Contents == {JoinWords(ContentWords, picked) : picked \in SUBSET (1..Len(ContentWords))}

\* words the tokenizer yields as one TERM token
BareTerms == {wJoao, wMaria, wAb}

QueryAndOrNot(a, b, c) == a \o sp \o opAND \o sp \o b \o sp \o opOR \o sp \o opNOT \o sp \o c
QueryMinus(a, b) == a \o sp \o opMINUS \o b
QueryPhrase(p) == quote \o p \o quote
Phrases == {wJoao, wMaria, wAb, wMaria \o sp \o wAb}

\* what can be typed into the search box, piece after piece
QueryPieces ==
    {wMaria, sp, <<"o", "r">>, opAND, opNOT, opMINUS, opLPAREN, opRPAREN, quote}

Queries ==
    {Concat(ps) : ps \in SeqsUpTo(QueryPieces, MaxQueryPieces)}
        \cup {QueryAndOrNot(a, b, c) : a \in BareTerms, b \in BareTerms, c \in BareTerms}
        \cup {QueryMinus(a, b) : a \in BareTerms, b \in BareTerms}
        \cup {QueryPhrase(p) : p \in Phrases}
        \cup {<<"\t">>, <<" ", "\n">>, opPLUS, wAb \o opPLUS \o wMaria}

(***************************************************************************)
(* Sessions and filters the specifications of the pipeline draw from      *)
(***************************************************************************)
\* the sessions S1, S2, S3 of the scenario of the specification
S1 ==
    [sessionId |-> <<"S", "1">>, type |-> "AUDIO", duration |-> <<"0", "0", ":", "0", "2", ":", "0", "0">>,
     sourceNumber |-> "9300", destinationNumber |-> "9100",
     sourceName |-> "Ana", destinationName |-> "Rui",
     content |-> <<"A", "n", "a", ":", " ", "a", "b">>,
     date |-> <<"1", "0", ".", "0", "5", ".", "2", "0", "2", "3">>, startTime |-> <<"2", "3", ":", "1", "0", ":", "0", "0">>]
\* an SMS has no duration
S2 ==
    [sessionId |-> <<"S", "2">>, type |-> "SMS", duration |-> <<>>,
     sourceNumber |-> "9300", destinationNumber |-> "9100",
     sourceName |-> Undefined, destinationName |-> Undefined,
     content |-> <<"a", "b">>,
     date |-> <<"1", "0", ".", "0", "5", ".", "2", "0", "2", "3">>, startTime |-> <<"0", "5", ":", "3", "0", ":", "0", "0">>]
\* a call without a source
S3 ==
    [sessionId |-> <<"S", "3">>, type |-> "AUDIO", duration |-> <<"0", "0", ":", "1", "0", ":", "0", "0">>,
     sourceNumber |-> Undefined, destinationNumber |-> "9200",
     sourceName |-> Undefined, destinationName |-> "Rui",
     content |-> <<"R", "u", "i", ":", " ", "a", "b">>,
     date |-> <<"1", "1", ".", "0", "5", ".", "2", "0", "2", "3">>, startTime |-> <<"1", "2", ":", "0", "0", ":", "0", "0">>]
\* a call of 1 min 30 s whose numbers are known under an alias, without names
S4 ==
    [sessionId |-> <<"S", "4">>, type |-> "AUDIO", duration |-> <<"0", "1", ":", "3", "0">>,
     sourceNumber |-> "9301", destinationNumber |-> "9101",
     sourceName |-> Undefined, destinationName |-> Undefined,
     content |-> <<"a", "b">>,
     date |-> <<"1", "2", ".", "0", "5", ".", "2", "0", "2", "3">>, startTime |-> <<>>]
\* a call with nothing but a transcript that names its first speaker
S5 ==
    [sessionId |-> <<"S", "5">>, type |-> "AUDIO", duration |-> <<>>,
     sourceNumber |-> Undefined, destinationNumber |-> Undefined,
     sourceName |-> Undefined, destinationName |-> Undefined,
     content |-> <<"A", "n", "a", ":", " ", "a", "b">>,
     date |-> <<"1", "2", ".", "0", "5", ".", "2", "0", "2", "3">>, startTime |-> <<"0", "6", ":", "0", "0", ":", "3", "0">>]
\* a call whose duration cannot be read
S6 ==
    [sessionId |-> <<"S", "6">>, type |-> "AUDIO", duration |-> <<"a", "b">>,
     sourceNumber |-> "9300", destinationNumber |-> "9100",
     sourceName |-> "Rui", destinationName |-> "Ana",
     content |-> <<"a", "b">>,
     date |-> <<"1", "2", ".", "0", "5", ".", "2", "0", "2", "3">>, startTime |-> <<"2", "2", ":", "0", "0", ":", "0", "0">>]

\* a call of more than an hour
S7 ==
    [sessionId |-> <<"S", "7">>, type |-> "AUDIO", duration |-> <<"0", "1", ":", "0", "0", ":", "0", "5">>,
     sourceNumber |-> "9300", destinationNumber |-> "9100",
     sourceName |-> "Ana", destinationName |-> "Rui",
     content |-> <<"a", "b">>,
     date |-> <<"1", "3", ".", "0", "5", ".", "2", "0", "2", "3">>, startTime |-> <<"0", "6", ":", "0", "0", ":", "0", "0">>]

SessionPool == {S1, S2, S3, S4, S5, S6, S7}

Scenario == <<S1, S2, S3>>

\* collections of two to four sessions of the pool
ComposeCollections ==
    {Scenario, <<S4, S5, S6, S7>>, <<S2, S4, S7>>, <<S5, S1>>, <<S7, S6, S3, S2>>, <<S3, S5>>}

\* the collections of at most n sessions of a pool, in every order
Collections(pool, n) ==
    {c \in SeqsUpTo(pool, n) : \A i, j \in 1..Len(c) : i # j => c[i] # c[j]}

IdsOf(list) == {list[i].sessionId : i \in 1..Len(list)}

\* the alias maps of the pipeline: none, and one merging a second number and
\* a number onto identities that sessions carry
FilterAliasMaps ==
    {EmptyMap, [k \in {"9101", "9301"} |-> IF k = "9101" THEN "9100" ELSE "Ana"]}

DurationChoices ==
    {[min |-> a, max |-> b] : a \in {<<>>, <<"0">>, <<"6", "0">>, <<"a", "b">>}, b \in {<<>>, <<"1", "2", "0">>}}

NumberChoices ==
    {[source |-> {}, dest |-> {}], [source |-> {}, dest |-> {"9100"}],
     [source |-> {"9300"}, dest |-> {}]}

SpeakerChoices ==
    {[source |-> {}, dest |-> {}], [source |-> {"Ana"}, dest |-> {}],
     [source |-> {}, dest |-> {"Rui"}]}

TimeChoices ==
    {[start |-> <<>>, end |-> <<>>], [start |-> <<"2", "2", ":", "0", "0">>, end |-> <<>>],
     [start |-> <<"2", "2", ":", "0", "0">>, end |-> <<"0", "6", ":", "0", "0">>]}

\* committed filter sets on duration, numbers, speakers and time of day
PipelineFilters ==
    {[EmptyFilters EXCEPT !.minDuration = d.min, !.maxDuration = d.max,
                          !.sourceNumbers = n.source, !.destNumbers = n.dest,
                          !.sourceSpeakers = p.source, !.destSpeakers = p.dest,
                          !.timeStart = t.start, !.timeEnd = t.end] :
        d \in DurationChoices, n \in NumberChoices, p \in SpeakerChoices, t \in TimeChoices}

\* the filter sets without a time of day
UntimedFilters == {f \in PipelineFilters : f.timeStart = <<>> /\ f.timeEnd = <<>>}

\* the tag store of the scope: two overlapping tags and one of a deleted session
TagStore ==
    <<[id |-> "T1", name |-> <<"A">>, sessionIds |-> {S1.sessionId, S2.sessionId}],
      [id |-> "T2", name |-> <<"B">>, sessionIds |-> {S2.sessionId, S3.sessionId}],
      [id |-> "T3", name |-> <<"C">>, sessionIds |-> {<<"S", "9">>}]>>

ScopeSessions == <<S1, S2, S3, S4>>

ScopeFilters == {EmptyFilters, [EmptyFilters EXCEPT !.destNumbers = {"9100"}]}

StartTimes == {<<>>, <<"0", "5", ":", "5", "9", ":", "5", "9">>, <<"0", "6", ":", "0", "0", ":", "3", "0">>, <<"1", "2", ":", "0", "0", ":", "0", "0">>, <<"2", "1", ":", "5", "9", ":", "0", "0">>, <<"2", "2", ":", "0", "0", ":", "0", "0">>, <<"2", "3", ":", "1", "0", ":", "0", "0">>}

TimeBounds == {<<>>, <<"0", "6", ":", "0", "0">>, <<"1", "2", ":", "0", "0">>, <<"2", "2", ":", "0", "0">>}

TimeFilters ==
    {[EmptyFilters EXCEPT !.timeStart = a, !.timeEnd = b] : a \in TimeBounds, b \in TimeBounds}

SessionDates == {<<"3", "1", ".", "1", "2", ".", "2", "0", "2", "2">>, <<"0", "9", ".", "0", "5", ".", "2", "0", "2", "3">>, <<"1", "0", ".", "0", "5", ".", "2", "0", "2", "3">>, <<"1", "1", ".", "0", "5", ".", "2", "0", "2", "3">>, <<"0", "1", ".", "0", "6", ".", "2", "0", "2", "3">>}

DateBounds == {<<>>, <<"2", "0", "2", "3", "-", "0", "5", "-", "1", "0">>, <<"2", "0", "2", "3", "-", "0", "5", "-", "1", "1">>}

DateFilters ==
    {[EmptyFilters EXCEPT !.dateStart = a, !.dateEnd = b] : a \in DateBounds, b \in DateBounds}

\* local time minus universal time: New York, Lisbon in winter, Lisbon in summer
Offsets == {-5, 0, 1}

SessionIds == {<<"S", "1">>, <<"s", "1", "2">>, <<"A", "B", "2">>, <<"a", "b">>}

IdEntries == {<<"s", "1">>, <<"S">>, <<"b">>, <<" ", "2">>, <<"2", " ">>, <<"x">>, <<>>}

SessionIdFilters ==
    {[EmptyFilters EXCEPT !.session = a] : a \in IdEntries}
        \cup {[EmptyFilters EXCEPT !.session = a \o <<",">> \o b] : a \in IdEntries, b \in IdEntries}

\* sessions and labels of the legal references; an article and a fact may
\* carry the same number
LegalSessionIds == {"S1", "S2"}

LegalLabels == {"21", "22"}

\* a call whose duration has a part that is not a number
S8 ==
    [sessionId |-> <<"S", "8">>, type |-> "AUDIO", duration |-> <<"0", "0", ":", "a", "b">>,
     sourceNumber |-> "9300", destinationNumber |-> "9100",
     sourceName |-> "Ana", destinationName |-> "Rui",
     content |-> <<"a", "b">>,
     date |-> <<"1", "0", ".", "0", "5", ".", "2", "0", "2", "3">>, startTime |-> <<"0", "8", ":", "0", "0", ":", "0", "0">>]

\* a call as long as S1, its duration written minutes:seconds
S9 ==
    [sessionId |-> <<"S", "9">>, type |-> "AUDIO", duration |-> <<"0", "2", ":", "0", "0">>,
     sourceNumber |-> "9301", destinationNumber |-> "9100",
     sourceName |-> Undefined, destinationName |-> "Ana",
     content |-> <<"a", "b">>,
     date |-> <<"1", "0", ".", "0", "5", ".", "2", "0", "2", "3">>, startTime |-> <<"0", "1", ":", "0", "0", ":", "0", "0">>]

\* collections to sort: days with several sessions, durations in both formats,
\* missing and unreadable, and sessions without numbers or names
SortCollections ==
    {Scenario, <<S4, S5, S6, S7>>, <<S9, S4, S7, S5, S1>>, <<S4, S8, S1, S9>>}

SortFilters == {EmptyFilters, [EmptyFilters EXCEPT !.destNumbers = {"9100"}]}

\* what is typed or ticked in three of the filter inputs
MinDurationTexts == {<<>>, <<"6", "0">>}

DestNumberPicks == {{}, {"9100"}}

SessionIdTexts == {<<>>, <<"s", "1">>}

\* a session as the App holds it: with its target and the file it came from
Imported(s, target, file) ==
    [sessionId |-> s.sessionId, type |-> s.type, duration |-> s.duration,
     sourceNumber |-> s.sourceNumber, destinationNumber |-> s.destinationNumber,
     sourceName |-> s.sourceName, destinationName |-> s.destinationName,
     content |-> s.content, date |-> s.date, startTime |-> s.startTime,
     target |-> target, sourceFileName |-> file]

\* sessions of two files; the second file holds session S1 of the first again
I1 == Imported(S1, <<"T", "1">>, "a.pdf")
I2 == Imported(S2, <<"T", "1">>, "a.pdf")
I1Again == Imported(S1, <<"T", "1">>, "b.pdf")
I3 == Imported(S3, <<"T", "2">>, "b.pdf")

ImportPool == {I1, I2, I1Again, I3}

\* the batches of one upload
ImportBatches == SeqsUpTo(ImportPool, MaxBatch) \ {<<>>}

\* tags: the names typed, the collection tagged and the project file restored
TagNames == {<<" ">>, <<"A">>}

EditedTagNames == {<<>>, <<"B">>}

TagSessions == <<I1>>

ProjectData ==
    [savedTags |-> <<[id |-> "T1", name |-> <<"A">>, sessionIds |-> {I1.sessionId, I3.sessionId}]>>,
     aliasMap |-> EmptyMap,
     sessions |-> <<I1, I3>>]

\* selection and deletion: three sessions of two files
SelectionSessions == <<I1, I2, I3>>

\* the files listed in the import dialog
LoadedFiles(list) == {list[i].sourceFileName : i \in 1..Len(list)}

NormChars == {"a", "A", "a_acute", "A_acute", "A_tilde", "U0301", "U20D7", " ", "o_slash"}

NormIdle ==
    /\ nText = <<>>
    /\ nOnce = Undefined
    /\ nTwice = Undefined
    /\ nPc = "idle"

AliasIdle ==
    /\ aliasMap = EmptyMap
    /\ showAliasModal = "closed"
    /\ selected = {}
    /\ targetName = ""
    /\ localMap = EmptyMap
    /\ resolved = EmptyMap
    /\ merged = EmptyMap

MatchIdle ==
    /\ mContent = <<>>
    /\ mTerm = <<>>
    /\ mResult = Undefined
    /\ mPc = "idle"

QueryIdle ==
    /\ query = <<>>
    /\ content = <<>>
    /\ result = Undefined
    /\ evalStack = <<>>
    /\ accepted = Undefined
    /\ qPc = "idle"

FilterIdle ==
    /\ sessions = <<>>
    /\ savedTags = <<>>
    /\ activeTagIds = {}
    /\ manualSelection = {}
    /\ viewOnlySelected = FALSE
    /\ inputs = EmptyFilters
    /\ activeFilters = EmptyFilters
    /\ tz = 0
    /\ baseSet = <<>>
    /\ filteredSessions = <<>>

SortIdle ==
    /\ sortOption = "date_desc"
    /\ sortedSessions = <<>>

LegalIdle ==
    /\ legalReferences = <<>>
    /\ legalReferenceIds = [s \in {} |-> NoReferenceIds]
    /\ legalFilters = EmptyLegalFilters
    /\ legalFilteredIds = {}

TagIdle ==
    /\ editingTagId = NoEditing
    /\ now = 1

InitNorm ==
    /\ nText \in SeqsUpTo(NormChars, MaxTextLen)
    /\ nOnce = Undefined
    /\ nTwice = Undefined
    /\ nPc = "input"
    /\ QueryIdle
    /\ MatchIdle
    /\ AliasIdle
    /\ FilterIdle
    /\ SortIdle
    /\ LegalIdle
    /\ TagIdle

NormalizeOnce ==
    /\ nPc = "input"
    /\ nOnce' = normalizeText(nText)
    /\ nPc' = "once"
    /\ UNCHANGED <<nText, nTwice, queryVars, matchVars, aliasVars, filterVars, sortVars, legalVars, tagVars>>

NormalizeTwice ==
    /\ nPc = "once"
    /\ nTwice' = normalizeText(nOnce)
    /\ nPc' = "twice"
    /\ UNCHANGED <<nText, nOnce, queryVars, matchVars, aliasVars, filterVars, sortVars, legalVars, tagVars>>

NextNorm == NormalizeOnce \/ NormalizeTwice

SpecNorm == InitNorm /\ [][NextNorm]_vars

(***************************************************************************)
(* Specification of the evaluator: a committed content query is evaluated *)
(* against the content of a session.                                       *)
(***************************************************************************)
InitQuery ==
    /\ query \in Queries
    /\ content \in Contents
    /\ result = Undefined
    /\ evalStack = <<>>
    /\ accepted = Undefined
    /\ qPc = "input"
    /\ NormIdle
    /\ MatchIdle
    /\ AliasIdle
    /\ FilterIdle
    /\ SortIdle
    /\ LegalIdle
    /\ TagIdle

EvaluateQuery ==
    /\ qPc = "input"
    /\ evalStack' = IF trim(query) = <<>> THEN <<>> ELSE FinalEvalStack(content, query)
    /\ result' = IF trim(query) = <<>> THEN TRUE ELSE StackResult(evalStack')
    /\ accepted' = contentPredicate(content, query, result')
    /\ qPc' = "done"
    /\ UNCHANGED <<query, content, normVars, matchVars, aliasVars, filterVars, sortVars, legalVars, tagVars>>

NextQuery == EvaluateQuery

SpecQuery == InitQuery /\ [][NextQuery]_vars

(***************************************************************************)
(* Specification of the matcher: a term is matched against a normalised   *)
(* content.                                                                *)
(***************************************************************************)
wCarro == <<"c", "a", "r", "r", "o">>
wAutocarro == <<"a", "u", "t", "o", "c", "a", "r", "r", "o">>
wLisboa == <<"l", "i", "s", "b", "o", "a">>
wLisbao == <<"l", "i", "s", "b", "a", "o">>

MatchTerms ==
    SeqsUpTo({"a", "b", " ", "\t"}, MaxTermLen)
        \cup {wCarro, wLisbao, wMaria, wJoao,
              <<"a", "b", "\t", "a", "b">>, <<"a", "b", " ", "a", "b">>,
              <<"l", "i", "s", "\n", "b", "o", "a">>, <<"l", "i", "s", " ", "b", "o", "a">>}

MatchContents ==
    SeqsUpTo({"a", "b", " "}, MaxMatchContentLen)
        \cup {wAutocarro, wLisboa, wCarro \o sp \o wLisboa, normalizeText(wMario),
              <<"j", "o", "a", "n", "a">>, <<"a", "b", "a", "b", "a">>}

InitMatch ==
    /\ mContent \in MatchContents
    /\ mTerm \in MatchTerms
    /\ mResult = Undefined
    /\ mPc = "input"
    /\ NormIdle
    /\ QueryIdle
    /\ AliasIdle
    /\ FilterIdle
    /\ SortIdle
    /\ LegalIdle
    /\ TagIdle

MatchTerm ==
    /\ mPc = "input"
    /\ mResult' = matchTerm(mContent, mTerm)
    /\ mPc' = "done"
    /\ UNCHANGED <<mContent, mTerm, normVars, queryVars, aliasVars, filterVars, sortVars, legalVars, tagVars>>

NextMatch == MatchTerm

SpecMatch == InitMatch /\ [][NextMatch]_vars

(***************************************************************************)
(* Specification of the identity resolver: the alias map is written by    *)
(* the two forms of the identity manager and by a project restore, and    *)
(* read by resolve on every render.                                        *)
(***************************************************************************)
\* the raw identifiers the identity manager lists
RawIdentities == {"r1", "r2"}

\* what can be typed as a display name
DisplayNames == {"", " ", "X", "r2"}

\* the values resolve is called on while rendering
ResolveInputs == {Undefined, "", "r1", "r2", "X", "constructor"}

\* the alias maps of the project files that can be restored
ProjectAliasMaps == {[k \in {"r1"} |-> "Y"], [k \in {"r2"} |-> "X"], [k \in {"r1", "r2"} |-> "Y"]}

Render(map) == [v \in ResolveInputs |-> resolve(map, v)]

InitAlias ==
    /\ aliasMap = EmptyMap
    /\ showAliasModal = "closed"
    /\ selected = {}
    /\ targetName = ""
    /\ localMap = EmptyMap
    /\ resolved = Render(EmptyMap)
    /\ merged = EmptyMap
    /\ NormIdle
    /\ QueryIdle
    /\ MatchIdle
    /\ FilterIdle
    /\ SortIdle
    /\ LegalIdle
    /\ TagIdle

\* setShowAliasModal(true): the manager is mounted with its initial state
OpenIdentityManager(form) ==
    /\ showAliasModal = "closed"
    /\ showAliasModal' = form
    /\ selected' = {}
    /\ targetName' = ""
    /\ localMap' = IF form = "edit" THEN aliasMap ELSE EmptyMap
    /\ UNCHANGED <<aliasMap, resolved, merged, normVars, queryVars, matchVars, filterVars, sortVars, legalVars, tagVars>>

\* onClose: the manager is unmounted
CloseIdentityManager ==
    /\ showAliasModal # "closed"
    /\ showAliasModal' = "closed"
    /\ selected' = {}
    /\ targetName' = ""
    /\ localMap' = EmptyMap
    /\ UNCHANGED <<aliasMap, resolved, merged, normVars, queryVars, matchVars, filterVars, sortVars, legalVars, tagVars>>

toggle(id) ==
    /\ showAliasModal = "merge"
    /\ selected' = IF id \in selected THEN selected \ {id} ELSE selected \cup {id}
    /\ UNCHANGED <<aliasMap, showAliasModal, targetName, localMap, resolved, merged,
                   normVars, queryVars, matchVars, filterVars, sortVars, legalVars, tagVars>>

setTargetName(name) ==
    /\ showAliasModal = "merge"
    /\ name # targetName
    /\ targetName' = name
    /\ UNCHANGED <<aliasMap, showAliasModal, selected, localMap, resolved, merged,
                   normVars, queryVars, matchVars, filterVars, sortVars, legalVars, tagVars>>

\* selected.forEach(id => newMap[id] = targetName), from a copy of aliasMap
RECURSIVE MergeInto(_, _, _)
MergeInto(map, ids, name) ==
    IF ids = {} THEN map
    ELSE LET id == CHOOSE x \in ids : TRUE
         IN  MergeInto(Assign(map, id, name), ids \ {id}, name)

handleMerge ==
    /\ showAliasModal = "merge"
    /\ ~(IsBlankName(targetName) \/ selected = {})
    /\ aliasMap' = MergeInto(aliasMap, selected, targetName)
    /\ selected' = {}
    /\ targetName' = ""
    /\ resolved' = Render(aliasMap')
    /\ merged' = Overlay(merged, [r \in selected |-> targetName])
    /\ UNCHANGED <<showAliasModal, localMap, normVars, queryVars, matchVars, filterVars, sortVars, legalVars, tagVars>>

\* the alias input of one identity shows localMap[original] || ''
ShownAlias(map, original) ==
    IF Falsy(Lookup(map, original)) THEN "" ELSE Lookup(map, original)

handleChange(original, alias) ==
    /\ showAliasModal = "edit"
    /\ alias # ShownAlias(localMap, original)
    /\ localMap' = Assign(localMap, original, alias)
    /\ UNCHANGED <<aliasMap, showAliasModal, selected, targetName, resolved, merged,
                   normVars, queryVars, matchVars, filterVars, sortVars, legalVars, tagVars>>

handleSave ==
    /\ showAliasModal = "edit"
    /\ aliasMap' = localMap
    /\ showAliasModal' = "closed"
    /\ selected' = {}
    /\ targetName' = ""
    /\ localMap' = EmptyMap
    /\ resolved' = Render(aliasMap')
    /\ merged' = Overlay(merged, localMap)
    /\ UNCHANGED <<normVars, queryVars, matchVars, filterVars, sortVars, legalVars, tagVars>>

\* setAliasMap(prev => ({ ...prev, ...projectData.aliasMap }))
RestoreProject(projectAliasMap) ==
    /\ aliasMap' = Overlay(aliasMap, projectAliasMap)
    /\ aliasMap' # aliasMap
    /\ resolved' = Render(aliasMap')
    /\ merged' = [r \in DOMAIN merged \ DOMAIN projectAliasMap |-> merged[r]]
    /\ UNCHANGED <<showAliasModal, selected, targetName, localMap, normVars, queryVars, matchVars, filterVars, sortVars, legalVars, tagVars>>

NextAlias ==
    \/ \E form \in {"merge", "edit"} : OpenIdentityManager(form)
    \/ CloseIdentityManager
    \/ \E id \in RawIdentities : toggle(id)
    \/ \E name \in DisplayNames : setTargetName(name)
    \/ handleMerge
    \/ \E original \in RawIdentities, alias \in DisplayNames : handleChange(original, alias)
    \/ handleSave
    \/ \E projectAliasMap \in ProjectAliasMaps : RestoreProject(projectAliasMap)

SpecAlias == InitAlias /\ [][NextAlias]_vars

(***************************************************************************)
(* Specifications of the filter pipeline: the Explorer holds a session    *)
(* collection, a tag store, an alias map, the active tags, the manual     *)
(* selection and the committed filter set; the memo of the filtered       *)
(* sessions is recomputed whenever one of them changes.                    *)
(***************************************************************************)
\* the Explorer with filter inputs typed in: nothing committed, active or selected
InitExplorer(collections, tagStores, aliasMaps, offsets, drafts) ==
    /\ sessions \in collections
    /\ inputs \in drafts
    /\ savedTags \in tagStores
    /\ aliasMap \in aliasMaps
    /\ tz \in offsets
    /\ activeTagIds = {}
    /\ manualSelection = {}
    /\ viewOnlySelected = FALSE
    /\ activeFilters = EmptyFilters
    /\ baseSet = sessions
    /\ filteredSessions = FilterSessions(sessions, EmptyFilters, aliasMap, tz)
    /\ showAliasModal = "closed"
    /\ selected = {}
    /\ targetName = ""
    /\ localMap = EmptyMap
    /\ resolved = EmptyMap
    /\ merged = EmptyMap
    /\ sortOption = "date_desc"
    /\ sortedSessions \in SortOutcomes(filteredSessions, sortOption, aliasMap, tz)
    /\ NormIdle
    /\ QueryIdle
    /\ MatchIdle
    /\ LegalIdle
    /\ TagIdle

\* the memos of filteredSessions and sortedSessions, run on the state after the handler
Refilter ==
    /\ baseSet' = CandidateScope(sessions', savedTags', activeTagIds', manualSelection',
                                 viewOnlySelected')
    /\ filteredSessions' = FilterSessions(baseSet', activeFilters', aliasMap', tz')
    /\ sortedSessions' \in SortOutcomes(filteredSessions', sortOption', aliasMap', tz')

\* the live inputs are committed as the active filter set
handleSearch ==
    /\ activeFilters' = inputs
    /\ UNCHANGED <<sessions, savedTags, activeTagIds, manualSelection, viewOnlySelected, inputs, tz,
                   normVars, queryVars, matchVars, aliasVars, sortOption, legalVars, tagVars>>
    /\ Refilter

handleClearFilters ==
    /\ manualSelection' = {}
    /\ viewOnlySelected' = FALSE
    /\ activeTagIds' = {}
    /\ inputs' = EmptyFilters
    /\ activeFilters' = EmptyFilters
    /\ UNCHANGED <<sessions, savedTags, tz, normVars, queryVars, matchVars, aliasVars, sortOption, legalVars, tagVars>>
    /\ Refilter

toggleTag(id) ==
    /\ editingTagId # id
    /\ activeTagIds' = IF id \in activeTagIds THEN activeTagIds \ {id} ELSE activeTagIds \cup {id}
    /\ UNCHANGED <<sessions, savedTags, manualSelection, viewOnlySelected, inputs, activeFilters, tz,
                   normVars, queryVars, matchVars, aliasVars, sortOption, legalVars, tagVars>>
    /\ Refilter

\* the checkbox of a listed session
toggleSelection(id) ==
    /\ id \in IdsOf(filteredSessions)
    /\ manualSelection' = IF id \in manualSelection THEN manualSelection \ {id}
                          ELSE manualSelection \cup {id}
    /\ UNCHANGED <<sessions, savedTags, activeTagIds, viewOnlySelected, inputs, activeFilters, tz,
                   normVars, queryVars, matchVars, aliasVars, sortOption, legalVars, tagVars>>
    /\ Refilter

toggleViewOnlySelected ==
    /\ viewOnlySelected' = ~viewOnlySelected
    /\ UNCHANGED <<sessions, savedTags, activeTagIds, manualSelection, inputs, activeFilters, tz,
                   normVars, queryVars, matchVars, aliasVars, sortOption, legalVars, tagVars>>
    /\ Refilter

\* the scope: tags and selection over a fixed collection
InitScope == InitExplorer({ScopeSessions}, {TagStore}, {EmptyMap}, {0}, ScopeFilters)

NextScope ==
    \/ \E i \in 1..Len(savedTags) : toggleTag(savedTags[i].id)
    \/ \E id \in IdsOf(sessions) : toggleSelection(id)
    \/ toggleViewOnlySelected
    \/ handleSearch
    \/ handleClearFilters

SpecScope == InitScope /\ [][NextScope]_vars

\* the per-session tests on duration, numbers and speakers; the time of day
\* has the specifications SpecTime and SpecCompose
InitFilter ==
    InitExplorer(Collections(SessionPool, MaxSessions) \cup {Scenario}, {<<>>},
                 FilterAliasMaps, {0}, UntimedFilters)

NextFilter ==
    \/ handleSearch
    \/ handleClearFilters

SpecFilter == InitFilter /\ [][NextFilter]_vars

\* the whole pipeline on collections of several sessions
InitCompose ==
    InitExplorer(ComposeCollections, {<<>>}, FilterAliasMaps, {0}, PipelineFilters)

NextCompose ==
    \/ handleSearch
    \/ handleClearFilters

SpecCompose == InitCompose /\ [][NextCompose]_vars

\* the time of day test on one session
InitTime ==
    InitExplorer({<<[S1 EXCEPT !.startTime = t]>> : t \in StartTimes}, {<<>>}, {EmptyMap}, {0},
                 TimeFilters)

NextTime ==
    \/ handleSearch
    \/ handleClearFilters

SpecTime == InitTime /\ [][NextTime]_vars

\* the date test on one session, in three time zones
InitDate ==
    InitExplorer({<<[S1 EXCEPT !.date = d]>> : d \in SessionDates}, {<<>>}, {EmptyMap}, Offsets,
                 DateFilters)

NextDate ==
    \/ handleSearch
    \/ handleClearFilters

SpecDate == InitDate /\ [][NextDate]_vars

\* the session id test on one session
InitSessionId ==
    InitExplorer({<<[S1 EXCEPT !.sessionId = id]>> : id \in SessionIds}, {<<>>}, {EmptyMap}, {0},
                 SessionIdFilters)

NextSessionId ==
    \/ handleSearch
    \/ handleClearFilters

SpecSessionId == InitSessionId /\ [][NextSessionId]_vars

(***************************************************************************)
(* Specification of the legal-reference filter: references are created,   *)
(* linked to the selected sessions and unlinked, and label lists are       *)
(* committed; the memo of the accepted sessions is recomputed each time.   *)
(***************************************************************************)
InitLegal ==
    /\ legalReferences = <<>>
    /\ legalReferenceIds = [s \in LegalSessionIds |-> NoReferenceIds]
    /\ legalFilters = EmptyLegalFilters
    /\ legalFilteredIds = LegalSessionIds
    /\ TagIdle
    /\ NormIdle
    /\ QueryIdle
    /\ MatchIdle
    /\ AliasIdle
    /\ FilterIdle
    /\ SortIdle

\* the legal-reference part of the memo of filteredSessions
RefilterLegal ==
    legalFilteredIds' =
        {s \in LegalSessionIds : LegalAccepted(legalReferenceIds'[s], legalFilters', legalReferences')}

\* LegalMatterModal: one label is added under the open tab; generateId never
\* gives the same id twice
handleAddSingle(type, label) ==
    /\ Len(legalReferences) < MaxReferences
    /\ legalReferences' = Append(legalReferences,
                                 [id |-> Len(legalReferences) + 1, type |-> type, label |-> label])
    /\ UNCHANGED <<legalReferenceIds, legalFilters>>
    /\ UNCHANGED <<normVars, queryVars, matchVars, aliasVars, filterVars, sortVars, tagVars>>
    /\ RefilterLegal

\* the ticked labels of each category are linked to the sessions of the selection
linkLegalReference(selection, articles, facts, tags) ==
    LET idsToLink == IdsToLinkOf(legalReferences, "ARTICLE", articles)
                         \cup IdsToLinkOf(legalReferences, "FACT", facts)
                         \cup IdsToLinkOf(legalReferences, "TAG", tags)
    IN  /\ selection # {}
        /\ idsToLink # {}
        /\ legalReferenceIds' =
               [s \in LegalSessionIds |->
                   IF s \in selection
                       THEN ReferenceIds(legalReferenceIds[s].ids \cup idsToLink)
                   ELSE legalReferenceIds[s]]
        /\ UNCHANGED <<legalReferences, legalFilters>>
        /\ UNCHANGED <<normVars, queryVars, matchVars, aliasVars, filterVars, sortVars, tagVars>>
        /\ RefilterLegal

unlinkLegalReference(sessionId, refId) ==
    /\ ~legalReferenceIds[sessionId].isUndefined
    /\ refId \in legalReferenceIds[sessionId].ids
    /\ legalReferenceIds' = [legalReferenceIds EXCEPT ![sessionId] = ReferenceIds(@.ids \ {refId})]
    /\ UNCHANGED <<legalReferences, legalFilters>>
    /\ UNCHANGED <<normVars, queryVars, matchVars, aliasVars, filterVars, sortVars, tagVars>>
    /\ RefilterLegal

\* handleSearch of the Explorer with legal references: the ticked labels of
\* the three filter lists are committed
handleSearchLegal(articles, facts, tags) ==
    /\ legalFilters' = [legalArticle |-> articles, legalFact |-> facts, legalTag |-> tags]
    /\ UNCHANGED <<legalReferences, legalReferenceIds>>
    /\ UNCHANGED <<normVars, queryVars, matchVars, aliasVars, filterVars, sortVars, tagVars>>
    /\ RefilterLegal

NextLegal ==
    \/ \E type \in LegalReferenceTypes, label \in LegalLabels : handleAddSingle(type, label)
    \/ \E selection \in SUBSET LegalSessionIds :
           \E articles \in SUBSET AvailableLabels(legalReferences, "ARTICLE"),
              facts \in SUBSET AvailableLabels(legalReferences, "FACT"),
              tags \in SUBSET AvailableLabels(legalReferences, "TAG") :
               linkLegalReference(selection, articles, facts, tags)
    \/ \E s \in LegalSessionIds, refId \in 1..MaxReferences : unlinkLegalReference(s, refId)
    \/ \E articles \in SUBSET AvailableLabels(legalReferences, "ARTICLE"),
          facts \in SUBSET AvailableLabels(legalReferences, "FACT"),
          tags \in SUBSET AvailableLabels(legalReferences, "TAG") :
           handleSearchLegal(articles, facts, tags)

SpecLegal == InitLegal /\ [][NextLegal]_vars

(***************************************************************************)
(* Specification of the sort stage: the sort key is chosen and filters are *)
(* committed and cleared; the memo of sortedSessions follows the filter    *)
(* result.                                                                 *)
(***************************************************************************)
setSortOption(option) ==
    /\ sortOption' = option
    /\ UNCHANGED <<sessions, savedTags, activeTagIds, manualSelection, viewOnlySelected, inputs,
                   activeFilters, tz, normVars, queryVars, matchVars, aliasVars, legalVars, tagVars>>
    /\ Refilter

InitSort == InitExplorer(SortCollections, {<<>>}, FilterAliasMaps, {0}, SortFilters)

NextSort ==
    \/ \E option \in SortOptions : setSortOption(option)
    \/ handleSearch
    \/ handleClearFilters

SpecSort == InitSort /\ [][NextSort]_vars

(***************************************************************************)
(* Specification of the commit of the filter inputs: inputs are edited,    *)
(* searched and cleared, and tags are switched on and off.                 *)
(***************************************************************************)
\* an input that filters as it is typed
setFilterDestNumbersLive(value) ==
    /\ inputs' = [inputs EXCEPT !.destNumbers = value]
    /\ activeFilters' = inputs'
    /\ UNCHANGED <<sessions, savedTags, activeTagIds, manualSelection, viewOnlySelected, tz,
                   normVars, queryVars, matchVars, aliasVars, sortOption, legalVars, tagVars>>
    /\ Refilter

\* onChange of the inputs: the live value is stored, nothing else
setFilterDestNumbers(value) ==
    /\ inputs' = [inputs EXCEPT !.destNumbers = value]
    /\ UNCHANGED <<sessions, savedTags, activeTagIds, manualSelection, viewOnlySelected,
                   activeFilters, tz, normVars, queryVars, matchVars, aliasVars, sortOption,
                   legalVars, tagVars>>
    /\ Refilter

setInputMinDuration(value) ==
    /\ inputs' = [inputs EXCEPT !.minDuration = value]
    /\ UNCHANGED <<sessions, savedTags, activeTagIds, manualSelection, viewOnlySelected,
                   activeFilters, tz, normVars, queryVars, matchVars, aliasVars, sortOption,
                   legalVars, tagVars>>
    /\ Refilter

setInputSession(value) ==
    /\ inputs' = [inputs EXCEPT !.session = value]
    /\ UNCHANGED <<sessions, savedTags, activeTagIds, manualSelection, viewOnlySelected,
                   activeFilters, tz, normVars, queryVars, matchVars, aliasVars, sortOption,
                   legalVars, tagVars>>
    /\ Refilter

\* any edit of a live input
EditInput ==
    \/ \E value \in DestNumberPicks : setFilterDestNumbers(value)
    \/ \E value \in MinDurationTexts : setInputMinDuration(value)
    \/ \E value \in SessionIdTexts : setInputSession(value)

InitCommit == InitExplorer({Scenario}, {TagStore}, {EmptyMap}, {0}, {EmptyFilters})

NextCommit ==
    \/ \E value \in DestNumberPicks : setFilterDestNumbers(value)
    \/ \E value \in MinDurationTexts : setInputMinDuration(value)
    \/ \E value \in SessionIdTexts : setInputSession(value)
    \/ handleSearch
    \/ handleClearFilters
    \/ \E i \in 1..Len(savedTags) : toggleTag(savedTags[i].id)

SpecCommit == InitCommit /\ [][NextCommit]_vars

(***************************************************************************)
(* Specification of the import: batches of sessions are appended to a      *)
(* collection that starts empty.                                           *)
(***************************************************************************)
\* handleUniversalUpload hands the sessions of all the files of one upload to
\* appendSessions in one batch
appendSessions(newSessions) ==
    /\ sessions' = AppendUnique(sessions, newSessions)
    /\ UNCHANGED <<savedTags, activeTagIds, manualSelection, viewOnlySelected, inputs, activeFilters,
                   tz, normVars, queryVars, matchVars, aliasVars, sortOption, legalVars, tagVars>>
    /\ Refilter

InitImport == InitExplorer({<<>>}, {<<>>}, {EmptyMap}, {0}, {EmptyFilters})

NextImport == \E newSessions \in ImportBatches : appendSessions(newSessions)

SpecImport == InitImport /\ [][NextImport]_vars

(***************************************************************************)
(* Specification of the tag store: tags are created from the selection or *)
(* the listing, renamed, deleted, restored from a project file, and       *)
(* switched on and off as the scope of the pipeline.                       *)
(***************************************************************************)
saveTag(tagName) ==
    /\ trim(tagName) # <<>>
    /\ now < MaxClock
    /\ savedTags' = <<[id |-> ToString(now), name |-> tagName,
                       sessionIds |-> IdsToSave(manualSelection, sortedSessions)]>> \o savedTags
    /\ now' = now + 1
    /\ UNCHANGED <<sessions, activeTagIds, manualSelection, viewOnlySelected, inputs, activeFilters, tz,
                   normVars, queryVars, matchVars, aliasVars, sortOption, legalVars, editingTagId>>
    /\ Refilter

startEditingTag(id) ==
    /\ editingTagId' = id
    /\ UNCHANGED <<normVars, queryVars, matchVars, aliasVars, filterVars, sortVars, legalVars, now>>

saveEditedTag(editTagName) ==
    /\ trim(editTagName) # <<>>
    /\ savedTags' = RenameTag(savedTags, editingTagId, editTagName)
    /\ editingTagId' = NoEditing
    /\ UNCHANGED <<sessions, activeTagIds, manualSelection, viewOnlySelected, inputs, activeFilters, tz,
                   normVars, queryVars, matchVars, aliasVars, sortOption, legalVars, now>>
    /\ Refilter

cancelEditingTag ==
    /\ editingTagId' = NoEditing
    /\ UNCHANGED <<normVars, queryVars, matchVars, aliasVars, filterVars, sortVars, legalVars, now>>

\* the tag stays in the active list when it is deleted
deleteTagKeepingActive(id, answer) ==
    /\ savedTags' = IF answer THEN RemoveTag(savedTags, id) ELSE savedTags
    /\ UNCHANGED <<sessions, activeTagIds, manualSelection, viewOnlySelected, inputs, activeFilters, tz,
                   normVars, queryVars, matchVars, aliasVars, sortOption, legalVars, tagVars>>
    /\ Refilter

\* answer: what the user answers to confirm()
deleteTag(id, answer) ==
    /\ savedTags' = IF answer THEN RemoveTag(savedTags, id) ELSE savedTags
    /\ activeTagIds' = IF answer /\ id \in activeTagIds THEN activeTagIds \ {id} ELSE activeTagIds
    /\ UNCHANGED <<sessions, manualSelection, viewOnlySelected, inputs, activeFilters, tz,
                   normVars, queryVars, matchVars, aliasVars, sortOption, legalVars, tagVars>>
    /\ Refilter

\* the button "Limpar Filtro" of the tag list, shown while a tag is active
clearTagFilter ==
    /\ activeTagIds # {}
    /\ activeTagIds' = {}
    /\ UNCHANGED <<sessions, savedTags, manualSelection, viewOnlySelected, inputs, activeFilters, tz,
                   normVars, queryVars, matchVars, aliasVars, sortOption, legalVars, tagVars>>
    /\ Refilter

\* a project file is loaded from the Explorer: its tags are appended, its
\* alias map is laid over the map and its sessions go through appendSessions
restoreProject(projectData) ==
    /\ Len(savedTags) + Len(projectData.savedTags) <= MaxTags
    /\ savedTags' = savedTags \o projectData.savedTags
    /\ aliasMap' = Overlay(aliasMap, projectData.aliasMap)
    /\ sessions' = AppendUnique(sessions, projectData.sessions)
    /\ UNCHANGED <<activeTagIds, manualSelection, viewOnlySelected, inputs, activeFilters, tz,
                   normVars, queryVars, matchVars, showAliasModal, selected, targetName, localMap,
                   resolved, merged, sortOption, legalVars, tagVars>>
    /\ Refilter

InitTags == InitExplorer({TagSessions}, {<<>>}, {EmptyMap}, {0}, {EmptyFilters})

NextTags ==
    \/ \E tagName \in TagNames : saveTag(tagName)
    \/ \E i \in 1..Len(savedTags) : startEditingTag(savedTags[i].id)
    \/ \E editTagName \in EditedTagNames : editingTagId # NoEditing /\ saveEditedTag(editTagName)
    \/ editingTagId # NoEditing /\ cancelEditingTag
    \/ \E i \in 1..Len(savedTags), answer \in BOOLEAN : deleteTag(savedTags[i].id, answer)
    \/ \E i \in 1..Len(savedTags) : toggleTag(savedTags[i].id)
    \/ clearTagFilter
    \/ handleClearFilters
    \/ restoreProject(ProjectData)

SpecTags == InitTags /\ [][NextTags]_vars

(***************************************************************************)
(* Specification of selection and deletion: sessions are ticked, selected *)
(* and deselected together, and deleted one by one, by selection or by    *)
(* file; every deletion asks for a confirmation first.                     *)
(***************************************************************************)
handleSelectAll ==
    /\ manualSelection' = IdsOf(sortedSessions)
    /\ UNCHANGED <<sessions, savedTags, activeTagIds, viewOnlySelected, inputs, activeFilters, tz,
                   normVars, queryVars, matchVars, aliasVars, sortOption, legalVars, tagVars>>
    /\ Refilter

handleDeselectAll ==
    /\ manualSelection' = {}
    /\ UNCHANGED <<sessions, savedTags, activeTagIds, viewOnlySelected, inputs, activeFilters, tz,
                   normVars, queryVars, matchVars, aliasVars, sortOption, legalVars, tagVars>>
    /\ Refilter

\* App: answer is what the user answers to window.confirm()
handleDeleteSessions(idsToRemove, answer) ==
    /\ idsToRemove # {}
    /\ sessions' = IF answer THEN DeleteSessions(sessions, idsToRemove) ELSE sessions

\* the delete button of one listed record
deleteRecord(id, answer) ==
    /\ handleDeleteSessions({id}, answer)
    /\ UNCHANGED <<savedTags, activeTagIds, manualSelection, viewOnlySelected, inputs, activeFilters,
                   tz, normVars, queryVars, matchVars, aliasVars, sortOption, legalVars, tagVars>>
    /\ Refilter

handleBulkDelete(answer) ==
    /\ manualSelection # {}
    /\ handleDeleteSessions(manualSelection, answer)
    /\ manualSelection' = {}
    /\ UNCHANGED <<savedTags, activeTagIds, viewOnlySelected, inputs, activeFilters, tz,
                   normVars, queryVars, matchVars, aliasVars, sortOption, legalVars, tagVars>>
    /\ Refilter

handleDeleteFiles(fileNames, answer) ==
    /\ fileNames # {}
    /\ sessions' = IF answer THEN DeleteFiles(sessions, fileNames) ELSE sessions
    /\ UNCHANGED <<savedTags, activeTagIds, manualSelection, viewOnlySelected, inputs, activeFilters,
                   tz, normVars, queryVars, matchVars, aliasVars, sortOption, legalVars, tagVars>>
    /\ Refilter

InitSelection == InitExplorer({SelectionSessions}, {<<>>}, {EmptyMap}, {0}, {EmptyFilters})

NextSelection ==
    \/ \E id \in IdsOf(sortedSessions) : toggleSelection(id)
    \/ handleSelectAll
    \/ handleDeselectAll
    \/ toggleViewOnlySelected
    \/ \E id \in IdsOf(sortedSessions), answer \in BOOLEAN : deleteRecord(id, answer)
    \/ \E answer \in BOOLEAN : handleBulkDelete(answer)
    \/ \E fileNames \in SUBSET LoadedFiles(sessions), answer \in BOOLEAN :
           handleDeleteFiles(fileNames, answer)

SpecSelection == InitSelection /\ [][NextSelection]_vars

(***************************************************************************)
(* Properties                                                              *)
(***************************************************************************)
\* C6: normalize is idempotent: normalising the normalised text changes nothing
NormalizeIdempotent == nPc = "twice" => nTwice = nOnce

\* a text with an upper-case precomposed letter and a separate combining
\* mark has been normalised twice
NormalizeIdempotentWitness ==
    /\ nPc = "twice"
    /\ \E i \in 1..Len(nText) : nText[i] = "A_acute"
    /\ \E i \in 1..Len(nText) : nText[i] = "U0301"
    /\ nOnce # nText

\* the verdict of matchTerm on the normalised content of the session
Matches(t) == matchTerm(normalizeText(content), t)

\* C1: "A AND B OR NOT C" evaluates to (A AND B) OR (NOT C), for bare words
\* A, B, C that the tokenizer yields as one TERM token each
PrecedenceNotAndOr ==
    \A a \in BareTerms, b \in BareTerms, c \in BareTerms :
        (qPc = "done" /\ query = QueryAndOrNot(a, b, c))
            => result = ((Matches(a) /\ Matches(b)) \/ ~Matches(c))

\* A and C match, B does not: only the binding of NOT and AND before OR
\* makes the query false
PrecedenceNotAndOrWitness ==
    /\ qPc = "done"
    /\ query = QueryAndOrNot(wJoao, wAb, wMaria)
    /\ Matches(wJoao) /\ ~Matches(wAb) /\ Matches(wMaria)
    /\ result = FALSE

\* C2: "A -B" matches exactly the contents that match A and do not match B
MinusExcludes ==
    \A a \in BareTerms, b \in BareTerms :
        (qPc = "done" /\ query = QueryMinus(a, b))
            => result = (Matches(a) /\ ~Matches(b))

\* C3: the value returned for a non-blank query is the top of the evaluation
\* stack after the last postfix token, and false when the stack is empty
ResultIsStackTop ==
    (qPc = "done" /\ trim(query) # <<>>)
        => result = (IF Len(evalStack) > 0 THEN Last(evalStack) ELSE FALSE)

\* C4: a quoted phrase is true iff the normalised content contains the
\* normalised phrase
PhraseExactOnly ==
    \A p \in Phrases :
        (qPc = "done" /\ query = QueryPhrase(p))
            => result = Includes(normalizeText(content), normalizeText(p))

\* C7: a query of white space only (or empty) evaluates to true for every
\* content, and the content predicate of the filter accepts the session
BlankQueryMatchesAll ==
    (qPc = "done" /\ \A i \in 1..Len(query) : IsSpaceChar(query[i]))
        => (result = TRUE /\ accepted = TRUE)

\* a query of a tab alone was evaluated against a non-empty content
BlankQueryMatchesAllWitness ==
    /\ qPc = "done"
    /\ query = <<"\t">>
    /\ content # <<>>
    /\ accepted = TRUE

\* C8: every query, well-formed or not, evaluates to a boolean, and an
\* operator with a missing operand takes false for it
MalformedQueryIsBoolean ==
    qPc = "done" =>
        /\ result \in BOOLEAN
        /\ query \in {opNOT, opMINUS} => result = TRUE
        /\ query \in {opAND, opPLUS, <<"o", "r">>} => result = FALSE
        /\ query = wMaria \o sp \o opAND => result = FALSE
        /\ query = opAND \o sp \o wMaria => result = FALSE
        /\ query = <<"o", "r">> \o sp \o wMaria => result = Matches(wMaria)
        /\ query = opNOT \o sp \o opNOT => result = FALSE
        /\ query = opLPAREN \o opRPAREN \o opRPAREN => result = FALSE

\* an OR without its left operand was evaluated on a content that matches
\* the right one
MalformedQueryIsBooleanWitness ==
    /\ qPc = "done"
    /\ query = <<"o", "r">> \o sp \o wMaria
    /\ Matches(wMaria)
    /\ result = TRUE

\* the words of a text: its maximal runs of word characters
WordsOf(c) ==
    {SubSeq(c, x[1], x[2]) :
        x \in {y \in (1..Len(c)) \X (1..Len(c)) :
                /\ y[1] <= y[2]
                /\ \A k \in y[1]..y[2] : IsWordChar(c[k])
                /\ y[1] = 1 \/ ~IsWordChar(c[y[1] - 1])
                /\ y[2] = Len(c) \/ ~IsWordChar(c[y[2] + 1])}}

\* a can be turned into b by at most k insertions, deletions and substitutions
RECURSIVE WithinEdits(_, _, _)
WithinEdits(a, b, k) ==
    IF k < 0 THEN FALSE
    ELSE IF a = <<>> THEN Len(b) <= k
    ELSE IF b = <<>> THEN Len(a) <= k
    ELSE IF Head(a) = Head(b) THEN WithinEdits(Tail(a), Tail(b), k)
    ELSE \/ WithinEdits(Tail(a), b, k - 1)
         \/ WithinEdits(a, Tail(b), k - 1)
         \/ WithinEdits(Tail(a), Tail(b), k - 1)

\* the fuzzy clause of the claim, for a normalised term t that is eligible
FuzzyAsClaimed(c, t) ==
    LET thr == IF Len(t) <= 5 THEN 1 ELSE 2
    IN  \E w \in WordsOf(c) :
            /\ Len(w) - Len(t) <= thr
            /\ Len(t) - Len(w) <= thr
            /\ WithinEdits(w, t, thr)

\* C5: matchTerm is true iff the normalised term is a substring of the
\* content, or it is longer than 3, has no white space, and a word of the
\* content is within the threshold of it in length and edit distance
MatchTermAsClaimed ==
    mPc = "done" =>
        LET t == normalizeText(mTerm)
        IN  mResult =
                (\/ Includes(mContent, t)
                 \/ /\ Len(t) > 3
                    /\ \A i \in 1..Len(t) : ~IsSpaceChar(t[i])
                    /\ FuzzyAsClaimed(mContent, t))

\* the same statement with "no space character" for "no white space": this
\* is what the code computes
MatchTermSpaceOnly ==
    mPc = "done" =>
        LET t == normalizeText(mTerm)
        IN  mResult =
                (\/ Includes(mContent, t)
                 \/ /\ Len(t) > 3
                    /\ \A i \in 1..Len(t) : t[i] # " "
                    /\ FuzzyAsClaimed(mContent, t))

\* C9: after a merge of identifiers R onto the display name X, resolve(r) is
\* X for every r in R, and stays X until another merge names r
MergedResolvesToName ==
    \A r \in DOMAIN merged : resolved[r] = merged[r]

\* C10: resolve is undefined for an empty or undefined input, the stored
\* value for a key of the alias map whatever that value is, and the input
\* itself otherwise
ResolveAsClaimed ==
    \A v \in ResolveInputs :
        resolved[v] = (IF v = Undefined \/ v = "" THEN Undefined
                       ELSE IF v \in DOMAIN aliasMap THEN aliasMap[v]
                       ELSE v)

\* C11: the candidate scope is every session when no tag is active, otherwise
\* the sessions whose id is in the union of the id sets of the active tags;
\* with viewOnlySelected it is further cut down to the manual selection. Tags
\* {S1,S2} and {S2,S3} give the scope {S1,S2,S3}.
ScopeAsClaimed ==
    /\ baseSet = SelectSeq(sessions, LAMBDA s :
                     /\ activeTagIds # {} =>
                            \E i \in 1..Len(savedTags) : /\ savedTags[i].id \in activeTagIds
                                                       /\ s.sessionId \in savedTags[i].sessionIds
                     /\ viewOnlySelected => s.sessionId \in manualSelection)
    /\ (activeTagIds = {"T1", "T2"} /\ ~viewOnlySelected) =>
           IdsOf(baseSet) = {S1.sessionId, S2.sessionId, S3.sessionId}

ScopeAsClaimedWitness ==
    /\ activeTagIds = {"T1", "T2"}
    /\ viewOnlySelected
    /\ manualSelection = {S2.sessionId, S4.sessionId}
    /\ baseSet = <<S2>>

\* C12: when the committed filter set has a minimum or a maximum duration,
\* whatever its value, no SMS is in the filter result
NoSmsUnderDurationFilter ==
    (activeFilters.minDuration # <<>> \/ activeFilters.maxDuration # <<>>) =>
        \A i \in 1..Len(filteredSessions) : filteredSessions[i].type # "SMS"

NoSmsUnderDurationFilterWitness ==
    /\ activeFilters.minDuration = <<"a", "b">>
    /\ activeFilters.maxDuration = <<>>
    /\ sessions = <<S2, S1>>
    /\ filteredSessions = <<S1>>

\* a duration written hours:minutes:seconds or minutes:seconds, in two digits each
ReadableDuration(dur) ==
    /\ Len(dur) \in {5, 8}
    /\ \A i \in 1..Len(dur) : IF i \in {3, 6} THEN dur[i] = ":" ELSE dur[i] \in Digits

TwoDigits(dur, i) == 10 * DigitValue(dur[i]) + DigitValue(dur[i + 1])

\* hours*3600 + minutes*60 + seconds of a readable duration
SecondsOf(dur) ==
    IF Len(dur) = 8 THEN TwoDigits(dur, 1) * 3600 + TwoDigits(dur, 4) * 60 + TwoDigits(dur, 7)
    ELSE TwoDigits(dur, 1) * 60 + TwoDigits(dur, 4)

\* only a minimum duration, a number, and a destination list are committed
OnlyMinDurationAndDest ==
    /\ activeFilters.minDuration # <<>>
    /\ \A i \in 1..Len(activeFilters.minDuration) : activeFilters.minDuration[i] \in Digits
    /\ [activeFilters EXCEPT !.minDuration = <<>>, !.destNumbers = {}] = EmptyFilters

\* C13: with only minDuration = m and a destination list D committed, the result
\* is exactly the AUDIO sessions of at least m seconds whose resolved destination
\* number is in D when D is not empty; on S1, S2, S3, m = 60 gives S1 and S3, and
\* D = [9100] narrows it to S1. Stated for calls that carry a readable duration.
MinDurationAndDestAsClaimed ==
    (/\ OnlyMinDurationAndDest
     /\ \A i \in 1..Len(sessions) :
            sessions[i].type = "AUDIO" => ReadableDuration(sessions[i].duration)) =>
        /\ filteredSessions = SelectSeq(sessions, LAMBDA s :
               /\ s.type = "AUDIO"
               /\ SecondsOf(s.duration) >= DecimalValue(activeFilters.minDuration)
               /\ activeFilters.destNumbers # {} =>
                      resolve(aliasMap, s.destinationNumber) \in activeFilters.destNumbers)
        /\ (sessions = Scenario /\ activeFilters.minDuration = <<"6", "0">>) =>
               filteredSessions = IF activeFilters.destNumbers = {} THEN <<S1, S3>> ELSE <<S1>>

MinDurationAndDestAsClaimedWitness ==
    /\ sessions = Scenario
    /\ activeFilters.minDuration = <<"6", "0">>
    /\ activeFilters.destNumbers = {"9100"}
    /\ OnlyMinDurationAndDest
    /\ filteredSessions = <<S1>>

\* a call of over an hour known under an aliased number is kept by m = 60, D = [9100]
MinDurationAndDestAliasWitness ==
    /\ sessions = <<S4, S7>>
    /\ aliasMap # EmptyMap
    /\ activeFilters.minDuration = <<"6", "0">>
    /\ activeFilters.destNumbers = {"9100"}
    /\ OnlyMinDurationAndDest
    /\ filteredSessions = <<S4, S7>>

\* C14: for each of the four directional tests, a session whose field is
\* missing is rejected when the filter list of that test is not empty
MissingFieldRejected ==
    \A i \in 1..Len(filteredSessions) :
        LET s == filteredSessions[i]
        IN  /\ activeFilters.sourceNumbers # {} => s.sourceNumber # Undefined
            /\ activeFilters.destNumbers # {} => s.destinationNumber # Undefined
            /\ activeFilters.sourceSpeakers # {} => s.sourceName # Undefined
            /\ activeFilters.destSpeakers # {} => s.destinationName # Undefined

\* the part of C14 on the two number tests
MissingNumberRejected ==
    \A i \in 1..Len(filteredSessions) :
        LET s == filteredSessions[i]
        IN  /\ activeFilters.sourceNumbers # {} => s.sourceNumber # Undefined
            /\ activeFilters.destNumbers # {} => s.destinationNumber # Undefined

\* the four directional tests: the list, the field tested and the verdict
DirectionalTests(f, map) ==
    {[list |-> f.sourceNumbers, field |-> "sourceNumber",
      verdict |-> [i \in 1..Len(sessions) |-> SourceNumberAccepted(sessions[i], f, map)]],
     [list |-> f.destNumbers, field |-> "destinationNumber",
      verdict |-> [i \in 1..Len(sessions) |-> DestNumberAccepted(sessions[i], f, map)]],
     [list |-> f.sourceSpeakers, field |-> "sourceName",
      verdict |-> [i \in 1..Len(sessions) |-> SourceSpeakerAccepted(sessions[i], f, map)]],
     [list |-> f.destSpeakers, field |-> "destinationName",
      verdict |-> [i \in 1..Len(sessions) |-> DestSpeakerAccepted(sessions[i], f, map)]]}

\* what the claim says of one directional test with a list that is not empty
ResolvesAsOne(test, map) ==
    test.list # {} =>
        /\ \A i, j \in 1..Len(sessions) :
               resolve(map, sessions[i][test.field]) = resolve(map, sessions[j][test.field])
                   => test.verdict[i] = test.verdict[j]
        /\ \A i \in 1..Len(sessions) :
               test.verdict[i] <=> resolve(map, sessions[i][test.field]) \in test.list

\* C15: merged identifiers are one identity: under every alias map and list, two
\* sessions whose raw field values resolve to the same value get the same verdict
\* from a directional test, and a session passes iff the resolved value is listed
MergedActAsOne ==
    \A test \in DirectionalTests(activeFilters, aliasMap) : ResolvesAsOne(test, aliasMap)

\* the part of C15 on the two number tests
MergedNumbersActAsOne ==
    \A test \in DirectionalTests(activeFilters, aliasMap) :
        test.field \in {"sourceNumber", "destinationNumber"} => ResolvesAsOne(test, aliasMap)

\* the filter fields that are set in a filter set
SetFields(f) == {k \in DOMAIN f : f[k] # EmptyFilters[k]}

\* the filter set that keeps the fields of P and leaves the others unset
Only(f, P) == [k \in DOMAIN f |-> IF k \in P THEN f[k] ELSE EmptyFilters[k]]

\* filtering by the fields of P1 and then the outcome by the other fields gives
\* the result of filtering once by all of them
ComposesOn(P1) ==
    FilterSessions(FilterSessions(baseSet, Only(activeFilters, P1), aliasMap, tz),
                   Only(activeFilters, SetFields(activeFilters) \ P1), aliasMap, tz)
        = filteredSessions

\* C16 as stated: for every collection and every two disjoint sets of filter
\* fields, filtering by the first and then by the second gives the same list as
\* filtering once by their union
FilterComposes ==
    \A P1 \in SUBSET SetFields(activeFilters) : ComposesOn(P1)

\* C16, amended: the same, for every two disjoint sets of filter fields that keep
\* the two bounds of the time of day together
FilterComposesTimeTogether ==
    \A P1 \in SUBSET SetFields(activeFilters) :
        ("timeStart" \in P1 <=> "timeEnd" \in P1) => ComposesOn(P1)

FilterComposesTimeTogetherWitness ==
    /\ sessions = Scenario
    /\ activeFilters.timeStart = <<"2", "2", ":", "0", "0">>
    /\ activeFilters.timeEnd = <<"0", "6", ":", "0", "0">>
    /\ activeFilters.minDuration = <<"6", "0">>
    /\ activeFilters.destNumbers = {"9100"}
    /\ filteredSessions = <<S1>>

\* the sessions of a list, as a set
Accepted(list) == {list[i] : i \in 1..Len(list)}

\* the session collection in the order given by a permutation of its positions
Reordered(order) == [i \in 1..Len(sessions) |-> sessions[order[i]]]

\* C17: the pipeline is a function of its inputs: running it again on the same
\* state gives the same list, and running it on the collection in any other
\* order accepts the same sessions
FilterIsDeterministic ==
    /\ filteredSessions =
           FilterSessions(CandidateScope(sessions, savedTags, activeTagIds, manualSelection,
                                         viewOnlySelected),
                          activeFilters, aliasMap, tz)
    /\ \A order \in Permutations(1..Len(sessions)) :
           Accepted(FilterSessions(CandidateScope(Reordered(order), savedTags, activeTagIds,
                                                  manualSelection, viewOnlySelected),
                                   activeFilters, aliasMap, tz))
               = Accepted(filteredSessions)

FilterIsDeterministicWitness ==
    /\ sessions = <<S7, S6, S3, S2>>
    /\ activeFilters.maxDuration = <<"1", "2", "0">>
    /\ activeFilters.minDuration = <<>>
    /\ activeFilters.destNumbers = {"9100"}
    /\ activeFilters.sourceSpeakers = {}
    /\ activeFilters.timeStart = <<>>
    /\ filteredSessions = <<S6>>

\* the minute of the day of a time written hh:mm or hh:mm:ss
MinuteOfDay(time) == TwoDigits(time, 1) * 60 + TwoDigits(time, 4)

\* what the claim says of a start time t and the bounds of the time of day
InClaimedTimeRange(t, start, end) ==
    IF start # <<>> /\ end # <<>>
        THEN IF MinuteOfDay(start) <= MinuteOfDay(end)
                 THEN MinuteOfDay(start) <= MinuteOfDay(t) /\ MinuteOfDay(t) <= MinuteOfDay(end)
                 ELSE MinuteOfDay(t) >= MinuteOfDay(start) \/ MinuteOfDay(t) <= MinuteOfDay(end)
    ELSE IF start # <<>> THEN MinuteOfDay(t) >= MinuteOfDay(start)
    ELSE IF end # <<>> THEN MinuteOfDay(t) <= MinuteOfDay(end)
    ELSE TRUE

\* C18: a session with start time t is accepted iff start <= t <= end when
\* start <= end, iff t >= start or t <= end when start > end (the range wraps
\* across midnight), and iff the one bound that is set holds when only one is;
\* t is compared by its hour and minute
TimeOfDayAsClaimed ==
    \A i \in 1..Len(sessions) :
        sessions[i].startTime # <<>> =>
            (sessions[i] \in Accepted(filteredSessions)
                <=> InClaimedTimeRange(sessions[i].startTime, activeFilters.timeStart,
                                       activeFilters.timeEnd))

TimeOfDayAsClaimedWitness ==
    /\ activeFilters.timeStart = <<"2", "2", ":", "0", "0">>
    /\ activeFilters.timeEnd = <<"0", "6", ":", "0", "0">>
    /\ Len(sessions) = 1
    /\ sessions[1].startTime = <<"0", "6", ":", "0", "0", ":", "3", "0">>
    /\ filteredSessions = sessions

\* the calendar day of a session date, day.month.year, and of the value of a
\* date input, year-month-day, as the number yyyymmdd
FourDigits(text, i) == 100 * TwoDigits(text, i) + TwoDigits(text, i + 2)

DayOfSession(date) ==
    10000 * FourDigits(date, 7) + 100 * TwoDigits(date, 4) + TwoDigits(date, 1)

DayOfInput(date) ==
    10000 * FourDigits(date, 1) + 100 * TwoDigits(date, 6) + TwoDigits(date, 9)

\* what the claim says of a session date and the bounds of the date range
InClaimedDateRange(date, dateStart, dateEnd) ==
    /\ dateStart # <<>> => DayOfInput(dateStart) <= DayOfSession(date)
    /\ dateEnd # <<>> => DayOfSession(date) <= DayOfInput(dateEnd)

\* C19: a session dated on the day D is accepted iff dateStart <= D and
\* D <= dateEnd, for the bounds that are set, in every time zone: a session
\* dated on dateStart or on dateEnd is accepted
DateRangeInclusive ==
    \A i \in 1..Len(sessions) :
        sessions[i] \in Accepted(filteredSessions)
            <=> InClaimedDateRange(sessions[i].date, activeFilters.dateStart,
                                   activeFilters.dateEnd)

\* the date range is as claimed where local time is universal time
DateRangeInclusiveAtUTC == tz = 0 => DateRangeInclusive

\* two characters are the same letter, whatever their case
SameLetter(x, y) == toUpperCaseChar(x) = toUpperCaseChar(y)

\* entry is found in id when case is ignored
FoundIgnoringCase(id, entry) ==
    \E k \in 0..(Len(id) - Len(entry)) :
        \A j \in 1..Len(entry) : SameLetter(id[k + j], entry[j])

\* C20: with a session id filter, a session is accepted iff one of the entries
\* between the commas, trimmed, is a substring of its id when case is ignored
SessionIdAsClaimed ==
    activeFilters.session # <<>> =>
        \A i \in 1..Len(sessions) :
            sessions[i] \in Accepted(filteredSessions)
                <=> \E n \in 1..Len(SplitOn(activeFilters.session, ",")) :
                        FoundIgnoringCase(sessions[i].sessionId,
                                          trim(SplitOn(activeFilters.session, ",")[n]))

SessionIdAsClaimedWitness ==
    /\ activeFilters.session = <<"x", ",", " ", "2">>
    /\ Len(sessions) = 1
    /\ sessions[1].sessionId = <<"A", "B", "2">>
    /\ filteredSessions = sessions

\* an entry in the other case selects the session
SessionIdIgnoresCaseWitness ==
    /\ activeFilters.session = <<"b">>
    /\ Len(sessions) = 1
    /\ sessions[1].sessionId = <<"A", "B", "2">>
    /\ filteredSessions = sessions


\* a reference of the category, with one of the listed labels, is linked to the session
LinkedInCategory(linked, type, list, references) ==
    /\ ~linked.isUndefined
    /\ \E i \in 1..Len(references) :
           /\ references[i].id \in linked.ids
           /\ references[i].type = type
           /\ references[i].label \in list

\* C21: for each category with a non-empty label list a session is accepted
\* iff one listed label is the label of a reference of that category linked
\* to the session; the three lists combine by AND, and a session without
\* linked references is rejected when any list is non-empty
LegalFilterAsClaimed ==
    \A s \in DOMAIN legalReferenceIds :
        s \in legalFilteredIds <=>
            /\ legalFilters.legalArticle # {} =>
                   LinkedInCategory(legalReferenceIds[s], "ARTICLE", legalFilters.legalArticle,
                                    legalReferences)
            /\ legalFilters.legalFact # {} =>
                   LinkedInCategory(legalReferenceIds[s], "FACT", legalFilters.legalFact,
                                    legalReferences)
            /\ legalFilters.legalTag # {} =>
                   LinkedInCategory(legalReferenceIds[s], "TAG", legalFilters.legalTag,
                                    legalReferences)

\* the labels of the references are distinct across the categories
LabelsDistinctAcrossCategories ==
    \A i, j \in 1..Len(legalReferences) :
        legalReferences[i].label = legalReferences[j].label
            => legalReferences[i].type = legalReferences[j].type

\* the same, wherever no label is used by two categories
LegalFilterAsClaimedDistinctLabels == LabelsDistinctAcrossCategories => LegalFilterAsClaimed

\* a session without linked references is rejected when any list is non-empty
UnlinkedRejected ==
    \A s \in DOMAIN legalReferenceIds :
        /\ legalReferenceIds[s].ids = {}
        /\ legalFilters # EmptyLegalFilters
        => s \notin legalFilteredIds

\* the sort key of a session under a sort option
SortKey(s, option, map, offset) ==
    CASE option \in {"date_desc", "date_asc"} -> TimeOrZero(parseDate(s.date, offset))
      [] option = "duration_desc" -> parseDurationToSeconds(s.duration)
      [] option = "source_num" -> Num(CollationRank(OrEmpty(resolve(map, s.sourceNumber))))
      [] option = "dest_num" -> Num(CollationRank(OrEmpty(resolve(map, s.destinationNumber))))
      [] option = "source_name" ->
             Num(CollationRank(OrEmpty(OrElse(resolve(map, s.sourceName),
                                              resolve(map, s.sourceNumber)))))
      [] option = "dest_name" ->
             Num(CollationRank(OrEmpty(OrElse(resolve(map, s.destinationName),
                                              resolve(map, s.destinationNumber)))))

\* the place of a session in a list that holds it once
PlaceIn(list, s) == CHOOSE i \in 1..Len(list) : list[i] = s

IsPermutationOf(list, other) ==
    /\ Len(list) = Len(other)
    /\ \A i \in 1..Len(other) : \E j \in 1..Len(list) : list[j] = other[i]

\* sessions with equal sort keys are in the order of the filter output
EqualKeysKeepOrder ==
    \A i, j \in 1..Len(filteredSessions) :
        /\ i < j
        /\ SortKey(filteredSessions[i], sortOption, aliasMap, tz)
               = SortKey(filteredSessions[j], sortOption, aliasMap, tz)
        => PlaceIn(sortedSessions, filteredSessions[i]) < PlaceIn(sortedSessions, filteredSessions[j])

\* C22: the sort stage returns a permutation of the filter output in which
\* any two sessions with equal sort keys keep the relative order they had in
\* the filter output, for every sort option
SortIsStable ==
    /\ IsPermutationOf(sortedSessions, filteredSessions)
    /\ IsPermutationOf(sortedSessions, filteredSessions) => EqualKeysKeepOrder

\* no session of the filter output has a duration that converts to NaN
DurationsConvert ==
    \A i \in 1..Len(filteredSessions) : ~parseDurationToSeconds(filteredSessions[i].duration).isNaN

\* the same, wherever the sort is not by duration or every duration converts
SortIsStableWhereDurationsConvert ==
    (sortOption # "duration_desc" \/ DurationsConvert) => SortIsStable

\* the sorted list is always a permutation of the filter output
SortIsPermutation == IsPermutationOf(sortedSessions, filteredSessions)

\* two sessions of the sorted list are of the same date and both have a start time
SameDateWithStartTimes(a, b) ==
    /\ a.date = b.date
    /\ a.startTime # <<>>
    /\ b.startTime # <<>>

\* C23: when sorting by date, two sessions with the same date are ordered by
\* their start times: the earlier first under date ascending, the later first
\* under date descending
DateTiesByStartTime ==
    \A i, j \in 1..Len(sortedSessions) :
        /\ i < j
        /\ SameDateWithStartTimes(sortedSessions[i], sortedSessions[j])
        => /\ sortOption = "date_asc" =>
                  StringLE(sortedSessions[i].startTime, sortedSessions[j].startTime)
           /\ sortOption = "date_desc" =>
                  StringGE(sortedSessions[i].startTime, sortedSessions[j].startTime)

\* the day number of a date written day.month.year in two, two and four digits
DayOfDate(date) ==
    DayNumber(FourDigits(date, 7), 10 * DigitValue(date[4]) + DigitValue(date[5]) - 1,
              10 * DigitValue(date[1]) + DigitValue(date[2]))

\* the days themselves are in order: rising under date ascending, falling under
\* date descending
DatesInOrder ==
    \A i, j \in 1..Len(sortedSessions) :
        i < j =>
            /\ sortOption = "date_asc" =>
                   DayOfDate(sortedSessions[i].date) <= DayOfDate(sortedSessions[j].date)
            /\ sortOption = "date_desc" =>
                   DayOfDate(sortedSessions[i].date) >= DayOfDate(sortedSessions[j].date)

\* sessions of the same date are in the order of the filter output
DateTiesKeepFilterOrder ==
    sortOption \in {"date_asc", "date_desc"} =>
        \A i, j \in 1..Len(filteredSessions) :
            (i < j /\ filteredSessions[i].date = filteredSessions[j].date)
                => PlaceIn(sortedSessions, filteredSessions[i])
                       < PlaceIn(sortedSessions, filteredSessions[j])

\* the number of seconds of a duration that is absent or readable
ClaimedSeconds(dur) == IF dur = <<>> THEN 0 ELSE SecondsOf(dur)

HasClaimedSeconds(dur) == dur = <<>> \/ ReadableDuration(dur)

\* C24: when sorting by duration, for any two sessions a before b in the
\* output seconds(a.duration) >= seconds(b.duration), also when the two
\* durations are written in different formats or one is absent (0 seconds)
DurationOrderAsClaimed ==
    sortOption = "duration_desc" =>
        \A i, j \in 1..Len(sortedSessions) :
            /\ i < j
            /\ HasClaimedSeconds(sortedSessions[i].duration)
            /\ HasClaimedSeconds(sortedSessions[j].duration)
            => ClaimedSeconds(sortedSessions[i].duration) >= ClaimedSeconds(sortedSessions[j].duration)

\* the same, wherever every duration of the filter output converts to a number
DurationOrderWhereDurationsConvert == DurationsConvert => DurationOrderAsClaimed

\* durations in both formats and a missing one have been sorted
DurationOrderMixedFormatsReached ==
    /\ sortOption = "duration_desc"
    /\ DurationsConvert
    /\ \E i, j, k \in 1..Len(sortedSessions) :
           /\ Len(sortedSessions[i].duration) = 8
           /\ Len(sortedSessions[j].duration) = 5
           /\ sortedSessions[k].duration = <<>>
           /\ sortedSessions # filteredSessions

\* C25: the Active Filter Set changes only on a search or a clear: a search
\* replaces the whole set by the current inputs, whatever was committed
\* before, and edits of the live inputs leave the set and the filter result
\* unchanged
ActiveFiltersChangeOnCommitOnly ==
    [][/\ activeFilters' # activeFilters =>
              \/ (inputs' = inputs /\ activeFilters' = inputs)
              \/ (inputs' = EmptyFilters /\ activeFilters' = EmptyFilters)
       /\ EditInput => UNCHANGED <<activeFilters, filteredSessions>>]_vars

\* inputs have been edited after a search and not searched again: the
\* committed set still filters, and differs from the inputs in two fields
ActiveFiltersChangeOnCommitOnlyWitness ==
    /\ activeFilters.destNumbers = {"9100"}
    /\ activeFilters.minDuration = <<"6", "0">>
    /\ inputs.destNumbers = {}
    /\ inputs.minDuration = <<>>
    /\ inputs.session = <<"s", "1">>
    /\ filteredSessions = <<S1>>

\* the key the claim speaks of
ClaimedKey(s) == <<s.target, s.sessionId, s.date>>

\* C26: after any sequence of imports, starting from an empty collection, no
\* two sessions of the collection share the same (target, sessionId, date)
\* key, also when one imported batch holds two sessions with the same key
NoDuplicateSessions ==
    \A i, j \in 1..Len(sessions) :
        i # j => ClaimedKey(sessions[i]) # ClaimedKey(sessions[j])

\* no appended session has the key of a session that was there before
AppendedKeysAreNew ==
    [][\A i \in (Len(sessions) + 1)..Len(sessions') :
           \A j \in 1..Len(sessions) : ClaimedKey(sessions'[i]) # ClaimedKey(sessions[j])]_vars

\* the bare words of a query: the maximal runs of characters other than
\* white space, parentheses, the double quote, + and -
RECURSIVE BareWordsFrom(_, _, _)
BareWordsFrom(q, i, cur) ==
    IF i > Len(q) THEN (IF cur = <<>> THEN <<>> ELSE <<cur>>)
    ELSE IF IsBareChar(q[i]) THEN BareWordsFrom(q, i + 1, Append(cur, q[i]))
    ELSE (IF cur = <<>> THEN <<>> ELSE <<cur>>) \o BareWordsFrom(q, i + 1, <<>>)

BareWordsOf(q) == BareWordsFrom(q, 1, <<>>)

\* the word is exactly OR, AND or NOT, in any case
IsOperatorWord(w) == toUpperCase(w) \in {opOR, opAND, opNOT}

\* the values of the TERM tokens, in order
TermValues(tokens) ==
    LET terms == SelectSeq(tokens, LAMBDA t : t.type = "TERM")
    IN  [i \in 1..Len(terms) |-> terms[i].value]

HasNoQuote(q) == \A i \in 1..Len(q) : q[i] # "\""

\* C27: the tokenizer turns every bare word that is not exactly OR, AND or
\* NOT into exactly one TERM token holding the whole word, also when the word
\* begins with the letters of an operator keyword in any case
BareWordsAreTerms ==
    (qPc = "done" /\ HasNoQuote(query)) =>
        TermValues(Tokenize(query))
            = SelectSeq(BareWordsOf(query), LAMBDA w : ~IsOperatorWord(w))

\* the word begins with the letters of an operator keyword and goes on
BeginsWithOperator(w) ==
    \E n \in 3..5 : Len(w) > Len(OperatorLexemes[n]) /\ LexemeAt(w, 1, OperatorLexemes[n])

\* the same, for the queries none of whose words begins with an operator keyword
BareWordsAreTermsUnlessOperatorPrefix ==
    (\A i \in 1..Len(BareWordsOf(query)) : ~BeginsWithOperator(BareWordsOf(query)[i]))
        => BareWordsAreTerms

\* C28: every id in the list of active tags is the id of a tag in the tag
\* store, whatever tags are created, renamed, deleted or restored
ActiveTagsAreStored == activeTagIds \subseteq TagIds(savedTags)

\* a created tag has been deleted while a restored tag is active
ActiveTagsAreStoredWitness ==
    /\ activeTagIds = {"T1"}
    /\ TagIds(savedTags) = {"T1"}
    /\ now = 2

\* a project restored twice leaves two tags of one id in the store
TwoTagsOfOneId ==
    \E i, j \in 1..Len(savedTags) : i # j /\ savedTags[i].id = savedTags[j].id

\* a deleted tag is not active afterwards
DeletedTagIsNotActive ==
    [][\A i \in 1..Len(savedTags) :
          deleteTag(savedTags[i].id, TRUE) => savedTags[i].id \notin activeTagIds']_vars

\* C29: a bulk delete of the selected sessions that the user declines at the
\* confirmation changes nothing: the session collection and the manual
\* selection are as they were before
DeclinedBulkDeleteChangesNothing ==
    [][handleBulkDelete(FALSE) => UNCHANGED <<sessions, manualSelection>>]_vars

\* a declined bulk delete leaves the session collection as it was
DeclinedBulkDeleteKeepsSessions == [][handleBulkDelete(FALSE) => UNCHANGED sessions]_vars

\* a declined delete of one record or of files changes nothing
DeclinedDeleteChangesNothing ==
    [][(\/ \E id \in IdsOf(sortedSessions) : deleteRecord(id, FALSE)
        \/ \E fileNames \in SUBSET LoadedFiles(sessions) : handleDeleteFiles(fileNames, FALSE))
       => UNCHANGED <<sessions, manualSelection>>]_vars

\* C30: after any sequence of selection toggles, select-all, deselect-all,
\* single-record deletes, bulk deletes and file deletes, every id in the
\* manual selection is the id of a session of the collection
SelectionIsOfSessions == manualSelection \subseteq IdsOf(sessions)

\* toggles, select-all, deselect-all and bulk deletes keep the selection
\* within the collection
SelectionKeptBySelectionSteps ==
    [][(/\ manualSelection \subseteq IdsOf(sessions)
        /\ \/ \E id \in IdsOf(sortedSessions) : toggleSelection(id)
           \/ handleSelectAll
           \/ handleDeselectAll
           \/ \E answer \in BOOLEAN : handleBulkDelete(answer))
       => manualSelection' \subseteq IdsOf(sessions')]_vars

====
